---- MODULE Spec2Model ----
(***************************************************************************)
(* A model of the vlr-scraper crate: the HTML-to-model parsers and the     *)
(* get_* calls of VlrClient.                                               *)
(*                                                                         *)
(* Text is a sequence of one-character strings.  An Option is a sequence   *)
(* of length at most one (<<>> is None, <<x>> is Some(x)).  A Result is a  *)
(* record [ok |-> TRUE, val |-> v] or [ok |-> FALSE, err |-> e].            *)
(* A document is the list of the elements a selector matches, each element *)
(* a record of the attributes, text nodes and children the code reads.     *)
(***************************************************************************)
EXTENDS Integers, Sequences, FiniteSets, TLC

VARIABLES
    ml_doc,      \* parse_matches: the elements matched by the selector
    ml_i,        \* parse_matches: index of the next element of the loop
    last_date,   \* parse_matches: `last_date`
    matches,     \* parse_matches: `matches`
    ml_ret,      \* parse_matches: the returned Result (<<>> while running)
    ev_doc,      \* parse_events: the elements matched by the selector
    ev_i,        \* parse_events: index of the next element of the iterator
    events,      \* parse_events: the events collected so far
    ev_ret,      \* parse_events: the returned Result (<<>> while running)
    call,        \* the get_* call of the client: its name and arguments
    pc,          \* the position of the call
    req,         \* for each request of the call: its state and its Result
    req_log,     \* the requests in the order they were issued
    done_log,    \* the requests in the order they completed
    result,      \* get_match: `result` (<<>> before parse_match)
    cl_ret,      \* the Result the call returned (<<>> while running)
    pf_call,     \* a parser applied to an element: its name and arguments
    pf_ret       \* what the parser returned (<<>> before it returns)

mlVars == <<ml_doc, ml_i, last_date, matches, ml_ret>>

evVars == <<ev_doc, ev_i, events, ev_ret>>

clVars == <<call, pc, req, req_log, done_log, result, cl_ret>>

pfVars == <<pf_call, pf_ret>>

vars == <<mlVars, evVars, clVars, pfVars>>

\* what the steps of one operation leave alone: the state of the others
mlOthers == <<evVars, clVars, pfVars>>
evOthers == <<mlVars, clVars, pfVars>>

-----------------------------------------------------------------------------
(* Option and Result *)

None == <<>>
Some(x) == <<x>>
IsSome(o) == Len(o) = 1
Unwrap(o) == o[1]

\* Option::unwrap_or, Option::map and Option::and_then
UnwrapOr(o, default) == IF IsSome(o) THEN Unwrap(o) ELSE default
Map(o, f(_)) == IF IsSome(o) THEN Some(f(Unwrap(o))) ELSE None
AndThen(o, f(_)) == IF IsSome(o) THEN f(Unwrap(o)) ELSE None

Ok(v) == [ok |-> TRUE, val |-> v]
Err(e) == [ok |-> FALSE, err |-> e]

\* Option::ok_or and Result::ok
OkOr(o, e) == IF IsSome(o) THEN Ok(Unwrap(o)) ELSE Err(e)
OkOf(r) == IF r.ok THEN Some(r.val) ELSE None

\* `r?` followed by the rest of the function: the error of r, or the rest
\* on its value
Try(r, rest(_)) == IF r.ok THEN rest(r.val) ELSE r

-----------------------------------------------------------------------------
(* Text primitives (str::trim, strip_prefix, split, replace) *)

\* A character outside printable ASCII is written as its code point, "U+00A0"
\* (the no-break space also as "NBSP"), and so is the grave accent, "U+0060";
\* "\t", "\n", "\f" and "\r" are the ASCII controls of those names.
\* char::is_whitespace: the characters with the Unicode White_Space property
Whitespace ==
    {" ", "\t", "\n", "U+000B", "\f", "\r", "U+0085", "U+00A0", "NBSP", "U+1680",
     "U+2000", "U+2001", "U+2002", "U+2003", "U+2004", "U+2005", "U+2006",
     "U+2007", "U+2008", "U+2009", "U+200A", "U+2028", "U+2029", "U+202F",
     "U+205F", "U+3000"}

Drop(s, n) == SubSeq(s, n + 1, Len(s))
Take(s, n) == SubSeq(s, 1, n)

StartsWith(s, p) == Len(s) >= Len(p) /\ Take(s, Len(p)) = p
EndsWith(s, p) == Len(s) >= Len(p) /\ Drop(s, Len(s) - Len(p)) = p

RECURSIVE TrimStart(_)
TrimStart(s) ==
    IF s # <<>> /\ Head(s) \in Whitespace THEN TrimStart(Tail(s)) ELSE s

RECURSIVE TrimEnd(_)
TrimEnd(s) ==
    IF s # <<>> /\ s[Len(s)] \in Whitespace THEN TrimEnd(Take(s, Len(s) - 1)) ELSE s

Trim(s) == TrimEnd(TrimStart(s))

\* str::strip_prefix: the rest after the prefix, or None
StripPrefix(s, p) == IF StartsWith(s, p) THEN Some(Drop(s, Len(p))) ELSE None

\* str::trim_end_matches(c)
RECURSIVE TrimEndMatches(_, _)
TrimEndMatches(s, c) ==
    IF s # <<>> /\ s[Len(s)] = c THEN TrimEndMatches(Take(s, Len(s) - 1), c) ELSE s

\* str::replace(['\n', '\t'], "")
RECURSIVE RemoveNlTab(_)
RemoveNlTab(s) ==
    IF s = <<>> THEN <<>>
    ELSE IF Head(s) \in {"\n", "\t"} THEN RemoveNlTab(Tail(s))
    ELSE <<Head(s)>> \o RemoveNlTab(Tail(s))

\* str::split(c): the pieces between the occurrences of c (always at least one)
RECURSIVE SplitAcc(_, _, _)
SplitAcc(s, c, cur) ==
    IF s = <<>> THEN <<cur>>
    ELSE IF Head(s) = c THEN <<cur>> \o SplitAcc(Tail(s), c, <<>>)
    ELSE SplitAcc(Tail(s), c, Append(cur, Head(s)))

Split(s, c) == SplitAcc(s, c, <<>>)

\* itertools collect_tuple::<(_, _)>: Some only for exactly two pieces
CollectTuple2(parts) == IF Len(parts) = 2 THEN Some(parts) ELSE None

UpperLetters ==
    <<"A", "B", "C", "D", "E", "F", "G", "H", "I", "J", "K", "L", "M",
      "N", "O", "P", "Q", "R", "S", "T", "U", "V", "W", "X", "Y", "Z">>
LowerLetters ==
    <<"a", "b", "c", "d", "e", "f", "g", "h", "i", "j", "k", "l", "m",
      "n", "o", "p", "q", "r", "s", "t", "u", "v", "w", "x", "y", "z">>

\* u8::to_ascii_lowercase, char by char: only A-Z change
AsciiLowerChar(c) ==
    IF \E i \in 1..26 : UpperLetters[i] = c
    THEN LowerLetters[CHOOSE i \in 1..26 : UpperLetters[i] = c]
    ELSE c

ToAsciiLower(s) == [i \in 1..Len(s) |-> AsciiLowerChar(s[i])]

EqIgnoreAsciiCase(a, b) == ToAsciiLower(a) = ToAsciiLower(b)

\* core::unicode::conversions::to_lower beyond A-Z: the characters whose
\* lowercase is another character (UnicodeUpper) and that lowercase
\* (UnicodeLower), position by position.  The dotted capital I (U+0130), the
\* one character whose lowercase is two characters, is not in the tables.
\* The tables, CasedOther and CaseIgnorable are those of Unicode 17.0.
UnicodeUpper ==
    <<"U+00C0", "U+00C1", "U+00C2", "U+00C3", "U+00C4", "U+00C5", "U+00C6", "U+00C7", "U+00C8", "U+00C9",
      "U+00CA", "U+00CB", "U+00CC", "U+00CD", "U+00CE", "U+00CF", "U+00D0", "U+00D1", "U+00D2", "U+00D3",
      "U+00D4", "U+00D5", "U+00D6", "U+00D8", "U+00D9", "U+00DA", "U+00DB", "U+00DC", "U+00DD", "U+00DE",
      "U+0100", "U+0102", "U+0104", "U+0106", "U+0108", "U+010A", "U+010C", "U+010E", "U+0110", "U+0112",
      "U+0114", "U+0116", "U+0118", "U+011A", "U+011C", "U+011E", "U+0120", "U+0122", "U+0124", "U+0126",
      "U+0128", "U+012A", "U+012C", "U+012E", "U+0132", "U+0134", "U+0136", "U+0139", "U+013B", "U+013D",
      "U+013F", "U+0141", "U+0143", "U+0145", "U+0147", "U+014A", "U+014C", "U+014E", "U+0150", "U+0152",
      "U+0154", "U+0156", "U+0158", "U+015A", "U+015C", "U+015E", "U+0160", "U+0162", "U+0164", "U+0166",
      "U+0168", "U+016A", "U+016C", "U+016E", "U+0170", "U+0172", "U+0174", "U+0176", "U+0178", "U+0179",
      "U+017B", "U+017D", "U+0181", "U+0182", "U+0184", "U+0186", "U+0187", "U+0189", "U+018A", "U+018B",
      "U+018E", "U+018F", "U+0190", "U+0191", "U+0193", "U+0194", "U+0196", "U+0197", "U+0198", "U+019C",
      "U+019D", "U+019F", "U+01A0", "U+01A2", "U+01A4", "U+01A6", "U+01A7", "U+01A9", "U+01AC", "U+01AE",
      "U+01AF", "U+01B1", "U+01B2", "U+01B3", "U+01B5", "U+01B7", "U+01B8", "U+01BC", "U+01C4", "U+01C5",
      "U+01C7", "U+01C8", "U+01CA", "U+01CB", "U+01CD", "U+01CF", "U+01D1", "U+01D3", "U+01D5", "U+01D7",
      "U+01D9", "U+01DB", "U+01DE", "U+01E0", "U+01E2", "U+01E4", "U+01E6", "U+01E8", "U+01EA", "U+01EC",
      "U+01EE", "U+01F1", "U+01F2", "U+01F4", "U+01F6", "U+01F7", "U+01F8", "U+01FA", "U+01FC", "U+01FE",
      "U+0200", "U+0202", "U+0204", "U+0206", "U+0208", "U+020A", "U+020C", "U+020E", "U+0210", "U+0212",
      "U+0214", "U+0216", "U+0218", "U+021A", "U+021C", "U+021E", "U+0220", "U+0222", "U+0224", "U+0226",
      "U+0228", "U+022A", "U+022C", "U+022E", "U+0230", "U+0232", "U+023A", "U+023B", "U+023D", "U+023E",
      "U+0241", "U+0243", "U+0244", "U+0245", "U+0246", "U+0248", "U+024A", "U+024C", "U+024E", "U+0370",
      "U+0372", "U+0376", "U+037F", "U+0386", "U+0388", "U+0389", "U+038A", "U+038C", "U+038E", "U+038F",
      "U+0391", "U+0392", "U+0393", "U+0394", "U+0395", "U+0396", "U+0397", "U+0398", "U+0399", "U+039A",
      "U+039B", "U+039C", "U+039D", "U+039E", "U+039F", "U+03A0", "U+03A1", "U+03A4", "U+03A5", "U+03A6",
      "U+03A7", "U+03A8", "U+03A9", "U+03AA", "U+03AB", "U+03CF", "U+03D8", "U+03DA", "U+03DC", "U+03DE",
      "U+03E0", "U+03E2", "U+03E4", "U+03E6", "U+03E8", "U+03EA", "U+03EC", "U+03EE", "U+03F4", "U+03F7",
      "U+03F9", "U+03FA", "U+03FD", "U+03FE", "U+03FF", "U+0400", "U+0401", "U+0402", "U+0403", "U+0404",
      "U+0405", "U+0406", "U+0407", "U+0408", "U+0409", "U+040A", "U+040B", "U+040C", "U+040D", "U+040E",
      "U+040F", "U+0410", "U+0411", "U+0412", "U+0413", "U+0414", "U+0415", "U+0416", "U+0417", "U+0418",
      "U+0419", "U+041A", "U+041B", "U+041C", "U+041D", "U+041E", "U+041F", "U+0420", "U+0421", "U+0422",
      "U+0423", "U+0424", "U+0425", "U+0426", "U+0427", "U+0428", "U+0429", "U+042A", "U+042B", "U+042C",
      "U+042D", "U+042E", "U+042F", "U+0460", "U+0462", "U+0464", "U+0466", "U+0468", "U+046A", "U+046C",
      "U+046E", "U+0470", "U+0472", "U+0474", "U+0476", "U+0478", "U+047A", "U+047C", "U+047E", "U+0480",
      "U+048A", "U+048C", "U+048E", "U+0490", "U+0492", "U+0494", "U+0496", "U+0498", "U+049A", "U+049C",
      "U+049E", "U+04A0", "U+04A2", "U+04A4", "U+04A6", "U+04A8", "U+04AA", "U+04AC", "U+04AE", "U+04B0",
      "U+04B2", "U+04B4", "U+04B6", "U+04B8", "U+04BA", "U+04BC", "U+04BE", "U+04C0", "U+04C1", "U+04C3",
      "U+04C5", "U+04C7", "U+04C9", "U+04CB", "U+04CD", "U+04D0", "U+04D2", "U+04D4", "U+04D6", "U+04D8",
      "U+04DA", "U+04DC", "U+04DE", "U+04E0", "U+04E2", "U+04E4", "U+04E6", "U+04E8", "U+04EA", "U+04EC",
      "U+04EE", "U+04F0", "U+04F2", "U+04F4", "U+04F6", "U+04F8", "U+04FA", "U+04FC", "U+04FE", "U+0500",
      "U+0502", "U+0504", "U+0506", "U+0508", "U+050A", "U+050C", "U+050E", "U+0510", "U+0512", "U+0514",
      "U+0516", "U+0518", "U+051A", "U+051C", "U+051E", "U+0520", "U+0522", "U+0524", "U+0526", "U+0528",
      "U+052A", "U+052C", "U+052E", "U+0531", "U+0532", "U+0533", "U+0534", "U+0535", "U+0536", "U+0537",
      "U+0538", "U+0539", "U+053A", "U+053B", "U+053C", "U+053D", "U+053E", "U+053F", "U+0540", "U+0541",
      "U+0542", "U+0543", "U+0544", "U+0545", "U+0546", "U+0547", "U+0548", "U+0549", "U+054A", "U+054B",
      "U+054C", "U+054D", "U+054E", "U+054F", "U+0550", "U+0551", "U+0552", "U+0553", "U+0554", "U+0555",
      "U+0556", "U+10A0", "U+10A1", "U+10A2", "U+10A3", "U+10A4", "U+10A5", "U+10A6", "U+10A7", "U+10A8",
      "U+10A9", "U+10AA", "U+10AB", "U+10AC", "U+10AD", "U+10AE", "U+10AF", "U+10B0", "U+10B1", "U+10B2",
      "U+10B3", "U+10B4", "U+10B5", "U+10B6", "U+10B7", "U+10B8", "U+10B9", "U+10BA", "U+10BB", "U+10BC",
      "U+10BD", "U+10BE", "U+10BF", "U+10C0", "U+10C1", "U+10C2", "U+10C3", "U+10C4", "U+10C5", "U+10C7",
      "U+10CD", "U+13A0", "U+13A1", "U+13A2", "U+13A3", "U+13A4", "U+13A5", "U+13A6", "U+13A7", "U+13A8",
      "U+13A9", "U+13AA", "U+13AB", "U+13AC", "U+13AD", "U+13AE", "U+13AF", "U+13B0", "U+13B1", "U+13B2",
      "U+13B3", "U+13B4", "U+13B5", "U+13B6", "U+13B7", "U+13B8", "U+13B9", "U+13BA", "U+13BB", "U+13BC",
      "U+13BD", "U+13BE", "U+13BF", "U+13C0", "U+13C1", "U+13C2", "U+13C3", "U+13C4", "U+13C5", "U+13C6",
      "U+13C7", "U+13C8", "U+13C9", "U+13CA", "U+13CB", "U+13CC", "U+13CD", "U+13CE", "U+13CF", "U+13D0",
      "U+13D1", "U+13D2", "U+13D3", "U+13D4", "U+13D5", "U+13D6", "U+13D7", "U+13D8", "U+13D9", "U+13DA",
      "U+13DB", "U+13DC", "U+13DD", "U+13DE", "U+13DF", "U+13E0", "U+13E1", "U+13E2", "U+13E3", "U+13E4",
      "U+13E5", "U+13E6", "U+13E7", "U+13E8", "U+13E9", "U+13EA", "U+13EB", "U+13EC", "U+13ED", "U+13EE",
      "U+13EF", "U+13F0", "U+13F1", "U+13F2", "U+13F3", "U+13F4", "U+13F5", "U+1C89", "U+1C90", "U+1C91",
      "U+1C92", "U+1C93", "U+1C94", "U+1C95", "U+1C96", "U+1C97", "U+1C98", "U+1C99", "U+1C9A", "U+1C9B",
      "U+1C9C", "U+1C9D", "U+1C9E", "U+1C9F", "U+1CA0", "U+1CA1", "U+1CA2", "U+1CA3", "U+1CA4", "U+1CA5",
      "U+1CA6", "U+1CA7", "U+1CA8", "U+1CA9", "U+1CAA", "U+1CAB", "U+1CAC", "U+1CAD", "U+1CAE", "U+1CAF",
      "U+1CB0", "U+1CB1", "U+1CB2", "U+1CB3", "U+1CB4", "U+1CB5", "U+1CB6", "U+1CB7", "U+1CB8", "U+1CB9",
      "U+1CBA", "U+1CBD", "U+1CBE", "U+1CBF", "U+1E00", "U+1E02", "U+1E04", "U+1E06", "U+1E08", "U+1E0A",
      "U+1E0C", "U+1E0E", "U+1E10", "U+1E12", "U+1E14", "U+1E16", "U+1E18", "U+1E1A", "U+1E1C", "U+1E1E",
      "U+1E20", "U+1E22", "U+1E24", "U+1E26", "U+1E28", "U+1E2A", "U+1E2C", "U+1E2E", "U+1E30", "U+1E32",
      "U+1E34", "U+1E36", "U+1E38", "U+1E3A", "U+1E3C", "U+1E3E", "U+1E40", "U+1E42", "U+1E44", "U+1E46",
      "U+1E48", "U+1E4A", "U+1E4C", "U+1E4E", "U+1E50", "U+1E52", "U+1E54", "U+1E56", "U+1E58", "U+1E5A",
      "U+1E5C", "U+1E5E", "U+1E60", "U+1E62", "U+1E64", "U+1E66", "U+1E68", "U+1E6A", "U+1E6C", "U+1E6E",
      "U+1E70", "U+1E72", "U+1E74", "U+1E76", "U+1E78", "U+1E7A", "U+1E7C", "U+1E7E", "U+1E80", "U+1E82",
      "U+1E84", "U+1E86", "U+1E88", "U+1E8A", "U+1E8C", "U+1E8E", "U+1E90", "U+1E92", "U+1E94", "U+1E9E",
      "U+1EA0", "U+1EA2", "U+1EA4", "U+1EA6", "U+1EA8", "U+1EAA", "U+1EAC", "U+1EAE", "U+1EB0", "U+1EB2",
      "U+1EB4", "U+1EB6", "U+1EB8", "U+1EBA", "U+1EBC", "U+1EBE", "U+1EC0", "U+1EC2", "U+1EC4", "U+1EC6",
      "U+1EC8", "U+1ECA", "U+1ECC", "U+1ECE", "U+1ED0", "U+1ED2", "U+1ED4", "U+1ED6", "U+1ED8", "U+1EDA",
      "U+1EDC", "U+1EDE", "U+1EE0", "U+1EE2", "U+1EE4", "U+1EE6", "U+1EE8", "U+1EEA", "U+1EEC", "U+1EEE",
      "U+1EF0", "U+1EF2", "U+1EF4", "U+1EF6", "U+1EF8", "U+1EFA", "U+1EFC", "U+1EFE", "U+1F08", "U+1F09",
      "U+1F0A", "U+1F0B", "U+1F0C", "U+1F0D", "U+1F0E", "U+1F0F", "U+1F18", "U+1F19", "U+1F1A", "U+1F1B",
      "U+1F1C", "U+1F1D", "U+1F28", "U+1F29", "U+1F2A", "U+1F2B", "U+1F2C", "U+1F2D", "U+1F2E", "U+1F2F",
      "U+1F38", "U+1F39", "U+1F3A", "U+1F3B", "U+1F3C", "U+1F3D", "U+1F3E", "U+1F3F", "U+1F48", "U+1F49",
      "U+1F4A", "U+1F4B", "U+1F4C", "U+1F4D", "U+1F59", "U+1F5B", "U+1F5D", "U+1F5F", "U+1F68", "U+1F69",
      "U+1F6A", "U+1F6B", "U+1F6C", "U+1F6D", "U+1F6E", "U+1F6F", "U+1F88", "U+1F89", "U+1F8A", "U+1F8B",
      "U+1F8C", "U+1F8D", "U+1F8E", "U+1F8F", "U+1F98", "U+1F99", "U+1F9A", "U+1F9B", "U+1F9C", "U+1F9D",
      "U+1F9E", "U+1F9F", "U+1FA8", "U+1FA9", "U+1FAA", "U+1FAB", "U+1FAC", "U+1FAD", "U+1FAE", "U+1FAF",
      "U+1FB8", "U+1FB9", "U+1FBA", "U+1FBB", "U+1FBC", "U+1FC8", "U+1FC9", "U+1FCA", "U+1FCB", "U+1FCC",
      "U+1FD8", "U+1FD9", "U+1FDA", "U+1FDB", "U+1FE8", "U+1FE9", "U+1FEA", "U+1FEB", "U+1FEC", "U+1FF8",
      "U+1FF9", "U+1FFA", "U+1FFB", "U+1FFC", "U+2126", "U+212A", "U+212B", "U+2132", "U+2160", "U+2161",
      "U+2162", "U+2163", "U+2164", "U+2165", "U+2166", "U+2167", "U+2168", "U+2169", "U+216A", "U+216B",
      "U+216C", "U+216D", "U+216E", "U+216F", "U+2183", "U+24B6", "U+24B7", "U+24B8", "U+24B9", "U+24BA",
      "U+24BB", "U+24BC", "U+24BD", "U+24BE", "U+24BF", "U+24C0", "U+24C1", "U+24C2", "U+24C3", "U+24C4",
      "U+24C5", "U+24C6", "U+24C7", "U+24C8", "U+24C9", "U+24CA", "U+24CB", "U+24CC", "U+24CD", "U+24CE",
      "U+24CF", "U+2C00", "U+2C01", "U+2C02", "U+2C03", "U+2C04", "U+2C05", "U+2C06", "U+2C07", "U+2C08",
      "U+2C09", "U+2C0A", "U+2C0B", "U+2C0C", "U+2C0D", "U+2C0E", "U+2C0F", "U+2C10", "U+2C11", "U+2C12",
      "U+2C13", "U+2C14", "U+2C15", "U+2C16", "U+2C17", "U+2C18", "U+2C19", "U+2C1A", "U+2C1B", "U+2C1C",
      "U+2C1D", "U+2C1E", "U+2C1F", "U+2C20", "U+2C21", "U+2C22", "U+2C23", "U+2C24", "U+2C25", "U+2C26",
      "U+2C27", "U+2C28", "U+2C29", "U+2C2A", "U+2C2B", "U+2C2C", "U+2C2D", "U+2C2E", "U+2C2F", "U+2C60",
      "U+2C62", "U+2C63", "U+2C64", "U+2C67", "U+2C69", "U+2C6B", "U+2C6D", "U+2C6E", "U+2C6F", "U+2C70",
      "U+2C72", "U+2C75", "U+2C7E", "U+2C7F", "U+2C80", "U+2C82", "U+2C84", "U+2C86", "U+2C88", "U+2C8A",
      "U+2C8C", "U+2C8E", "U+2C90", "U+2C92", "U+2C94", "U+2C96", "U+2C98", "U+2C9A", "U+2C9C", "U+2C9E",
      "U+2CA0", "U+2CA2", "U+2CA4", "U+2CA6", "U+2CA8", "U+2CAA", "U+2CAC", "U+2CAE", "U+2CB0", "U+2CB2",
      "U+2CB4", "U+2CB6", "U+2CB8", "U+2CBA", "U+2CBC", "U+2CBE", "U+2CC0", "U+2CC2", "U+2CC4", "U+2CC6",
      "U+2CC8", "U+2CCA", "U+2CCC", "U+2CCE", "U+2CD0", "U+2CD2", "U+2CD4", "U+2CD6", "U+2CD8", "U+2CDA",
      "U+2CDC", "U+2CDE", "U+2CE0", "U+2CE2", "U+2CEB", "U+2CED", "U+2CF2", "U+A640", "U+A642", "U+A644",
      "U+A646", "U+A648", "U+A64A", "U+A64C", "U+A64E", "U+A650", "U+A652", "U+A654", "U+A656", "U+A658",
      "U+A65A", "U+A65C", "U+A65E", "U+A660", "U+A662", "U+A664", "U+A666", "U+A668", "U+A66A", "U+A66C",
      "U+A680", "U+A682", "U+A684", "U+A686", "U+A688", "U+A68A", "U+A68C", "U+A68E", "U+A690", "U+A692",
      "U+A694", "U+A696", "U+A698", "U+A69A", "U+A722", "U+A724", "U+A726", "U+A728", "U+A72A", "U+A72C",
      "U+A72E", "U+A732", "U+A734", "U+A736", "U+A738", "U+A73A", "U+A73C", "U+A73E", "U+A740", "U+A742",
      "U+A744", "U+A746", "U+A748", "U+A74A", "U+A74C", "U+A74E", "U+A750", "U+A752", "U+A754", "U+A756",
      "U+A758", "U+A75A", "U+A75C", "U+A75E", "U+A760", "U+A762", "U+A764", "U+A766", "U+A768", "U+A76A",
      "U+A76C", "U+A76E", "U+A779", "U+A77B", "U+A77D", "U+A77E", "U+A780", "U+A782", "U+A784", "U+A786",
      "U+A78B", "U+A78D", "U+A790", "U+A792", "U+A796", "U+A798", "U+A79A", "U+A79C", "U+A79E", "U+A7A0",
      "U+A7A2", "U+A7A4", "U+A7A6", "U+A7A8", "U+A7AA", "U+A7AB", "U+A7AC", "U+A7AD", "U+A7AE", "U+A7B0",
      "U+A7B1", "U+A7B2", "U+A7B3", "U+A7B4", "U+A7B6", "U+A7B8", "U+A7BA", "U+A7BC", "U+A7BE", "U+A7C0",
      "U+A7C2", "U+A7C4", "U+A7C5", "U+A7C6", "U+A7C7", "U+A7C9", "U+A7CB", "U+A7CC", "U+A7CE", "U+A7D0",
      "U+A7D2", "U+A7D4", "U+A7D6", "U+A7D8", "U+A7DA", "U+A7DC", "U+A7F5", "U+FF21", "U+FF22", "U+FF23",
      "U+FF24", "U+FF25", "U+FF26", "U+FF27", "U+FF28", "U+FF29", "U+FF2A", "U+FF2B", "U+FF2C", "U+FF2D",
      "U+FF2E", "U+FF2F", "U+FF30", "U+FF31", "U+FF32", "U+FF33", "U+FF34", "U+FF35", "U+FF36", "U+FF37",
      "U+FF38", "U+FF39", "U+FF3A", "U+10400", "U+10401", "U+10402", "U+10403", "U+10404", "U+10405", "U+10406",
      "U+10407", "U+10408", "U+10409", "U+1040A", "U+1040B", "U+1040C", "U+1040D", "U+1040E", "U+1040F", "U+10410",
      "U+10411", "U+10412", "U+10413", "U+10414", "U+10415", "U+10416", "U+10417", "U+10418", "U+10419", "U+1041A",
      "U+1041B", "U+1041C", "U+1041D", "U+1041E", "U+1041F", "U+10420", "U+10421", "U+10422", "U+10423", "U+10424",
      "U+10425", "U+10426", "U+10427", "U+104B0", "U+104B1", "U+104B2", "U+104B3", "U+104B4", "U+104B5", "U+104B6",
      "U+104B7", "U+104B8", "U+104B9", "U+104BA", "U+104BB", "U+104BC", "U+104BD", "U+104BE", "U+104BF", "U+104C0",
      "U+104C1", "U+104C2", "U+104C3", "U+104C4", "U+104C5", "U+104C6", "U+104C7", "U+104C8", "U+104C9", "U+104CA",
      "U+104CB", "U+104CC", "U+104CD", "U+104CE", "U+104CF", "U+104D0", "U+104D1", "U+104D2", "U+104D3", "U+10570",
      "U+10571", "U+10572", "U+10573", "U+10574", "U+10575", "U+10576", "U+10577", "U+10578", "U+10579", "U+1057A",
      "U+1057C", "U+1057D", "U+1057E", "U+1057F", "U+10580", "U+10581", "U+10582", "U+10583", "U+10584", "U+10585",
      "U+10586", "U+10587", "U+10588", "U+10589", "U+1058A", "U+1058C", "U+1058D", "U+1058E", "U+1058F", "U+10590",
      "U+10591", "U+10592", "U+10594", "U+10595", "U+10C80", "U+10C81", "U+10C82", "U+10C83", "U+10C84", "U+10C85",
      "U+10C86", "U+10C87", "U+10C88", "U+10C89", "U+10C8A", "U+10C8B", "U+10C8C", "U+10C8D", "U+10C8E", "U+10C8F",
      "U+10C90", "U+10C91", "U+10C92", "U+10C93", "U+10C94", "U+10C95", "U+10C96", "U+10C97", "U+10C98", "U+10C99",
      "U+10C9A", "U+10C9B", "U+10C9C", "U+10C9D", "U+10C9E", "U+10C9F", "U+10CA0", "U+10CA1", "U+10CA2", "U+10CA3",
      "U+10CA4", "U+10CA5", "U+10CA6", "U+10CA7", "U+10CA8", "U+10CA9", "U+10CAA", "U+10CAB", "U+10CAC", "U+10CAD",
      "U+10CAE", "U+10CAF", "U+10CB0", "U+10CB1", "U+10CB2", "U+10D50", "U+10D51", "U+10D52", "U+10D53", "U+10D54",
      "U+10D55", "U+10D56", "U+10D57", "U+10D58", "U+10D59", "U+10D5A", "U+10D5B", "U+10D5C", "U+10D5D", "U+10D5E",
      "U+10D5F", "U+10D60", "U+10D61", "U+10D62", "U+10D63", "U+10D64", "U+10D65", "U+118A0", "U+118A1", "U+118A2",
      "U+118A3", "U+118A4", "U+118A5", "U+118A6", "U+118A7", "U+118A8", "U+118A9", "U+118AA", "U+118AB", "U+118AC",
      "U+118AD", "U+118AE", "U+118AF", "U+118B0", "U+118B1", "U+118B2", "U+118B3", "U+118B4", "U+118B5", "U+118B6",
      "U+118B7", "U+118B8", "U+118B9", "U+118BA", "U+118BB", "U+118BC", "U+118BD", "U+118BE", "U+118BF", "U+16E40",
      "U+16E41", "U+16E42", "U+16E43", "U+16E44", "U+16E45", "U+16E46", "U+16E47", "U+16E48", "U+16E49", "U+16E4A",
      "U+16E4B", "U+16E4C", "U+16E4D", "U+16E4E", "U+16E4F", "U+16E50", "U+16E51", "U+16E52", "U+16E53", "U+16E54",
      "U+16E55", "U+16E56", "U+16E57", "U+16E58", "U+16E59", "U+16E5A", "U+16E5B", "U+16E5C", "U+16E5D", "U+16E5E",
      "U+16E5F", "U+16EA0", "U+16EA1", "U+16EA2", "U+16EA3", "U+16EA4", "U+16EA5", "U+16EA6", "U+16EA7", "U+16EA8",
      "U+16EA9", "U+16EAA", "U+16EAB", "U+16EAC", "U+16EAD", "U+16EAE", "U+16EAF", "U+16EB0", "U+16EB1", "U+16EB2",
      "U+16EB3", "U+16EB4", "U+16EB5", "U+16EB6", "U+16EB7", "U+16EB8", "U+1E900", "U+1E901", "U+1E902", "U+1E903",
      "U+1E904", "U+1E905", "U+1E906", "U+1E907", "U+1E908", "U+1E909", "U+1E90A", "U+1E90B", "U+1E90C", "U+1E90D",
      "U+1E90E", "U+1E90F", "U+1E910", "U+1E911", "U+1E912", "U+1E913", "U+1E914", "U+1E915", "U+1E916", "U+1E917",
      "U+1E918", "U+1E919", "U+1E91A", "U+1E91B", "U+1E91C", "U+1E91D", "U+1E91E", "U+1E91F", "U+1E920", "U+1E921">>

UnicodeLower ==
    <<"U+00E0", "U+00E1", "U+00E2", "U+00E3", "U+00E4", "U+00E5", "U+00E6", "U+00E7", "U+00E8", "U+00E9",
      "U+00EA", "U+00EB", "U+00EC", "U+00ED", "U+00EE", "U+00EF", "U+00F0", "U+00F1", "U+00F2", "U+00F3",
      "U+00F4", "U+00F5", "U+00F6", "U+00F8", "U+00F9", "U+00FA", "U+00FB", "U+00FC", "U+00FD", "U+00FE",
      "U+0101", "U+0103", "U+0105", "U+0107", "U+0109", "U+010B", "U+010D", "U+010F", "U+0111", "U+0113",
      "U+0115", "U+0117", "U+0119", "U+011B", "U+011D", "U+011F", "U+0121", "U+0123", "U+0125", "U+0127",
      "U+0129", "U+012B", "U+012D", "U+012F", "U+0133", "U+0135", "U+0137", "U+013A", "U+013C", "U+013E",
      "U+0140", "U+0142", "U+0144", "U+0146", "U+0148", "U+014B", "U+014D", "U+014F", "U+0151", "U+0153",
      "U+0155", "U+0157", "U+0159", "U+015B", "U+015D", "U+015F", "U+0161", "U+0163", "U+0165", "U+0167",
      "U+0169", "U+016B", "U+016D", "U+016F", "U+0171", "U+0173", "U+0175", "U+0177", "U+00FF", "U+017A",
      "U+017C", "U+017E", "U+0253", "U+0183", "U+0185", "U+0254", "U+0188", "U+0256", "U+0257", "U+018C",
      "U+01DD", "U+0259", "U+025B", "U+0192", "U+0260", "U+0263", "U+0269", "U+0268", "U+0199", "U+026F",
      "U+0272", "U+0275", "U+01A1", "U+01A3", "U+01A5", "U+0280", "U+01A8", "U+0283", "U+01AD", "U+0288",
      "U+01B0", "U+028A", "U+028B", "U+01B4", "U+01B6", "U+0292", "U+01B9", "U+01BD", "U+01C6", "U+01C6",
      "U+01C9", "U+01C9", "U+01CC", "U+01CC", "U+01CE", "U+01D0", "U+01D2", "U+01D4", "U+01D6", "U+01D8",
      "U+01DA", "U+01DC", "U+01DF", "U+01E1", "U+01E3", "U+01E5", "U+01E7", "U+01E9", "U+01EB", "U+01ED",
      "U+01EF", "U+01F3", "U+01F3", "U+01F5", "U+0195", "U+01BF", "U+01F9", "U+01FB", "U+01FD", "U+01FF",
      "U+0201", "U+0203", "U+0205", "U+0207", "U+0209", "U+020B", "U+020D", "U+020F", "U+0211", "U+0213",
      "U+0215", "U+0217", "U+0219", "U+021B", "U+021D", "U+021F", "U+019E", "U+0223", "U+0225", "U+0227",
      "U+0229", "U+022B", "U+022D", "U+022F", "U+0231", "U+0233", "U+2C65", "U+023C", "U+019A", "U+2C66",
      "U+0242", "U+0180", "U+0289", "U+028C", "U+0247", "U+0249", "U+024B", "U+024D", "U+024F", "U+0371",
      "U+0373", "U+0377", "U+03F3", "U+03AC", "U+03AD", "U+03AE", "U+03AF", "U+03CC", "U+03CD", "U+03CE",
      "U+03B1", "U+03B2", "U+03B3", "U+03B4", "U+03B5", "U+03B6", "U+03B7", "U+03B8", "U+03B9", "U+03BA",
      "U+03BB", "U+03BC", "U+03BD", "U+03BE", "U+03BF", "U+03C0", "U+03C1", "U+03C4", "U+03C5", "U+03C6",
      "U+03C7", "U+03C8", "U+03C9", "U+03CA", "U+03CB", "U+03D7", "U+03D9", "U+03DB", "U+03DD", "U+03DF",
      "U+03E1", "U+03E3", "U+03E5", "U+03E7", "U+03E9", "U+03EB", "U+03ED", "U+03EF", "U+03B8", "U+03F8",
      "U+03F2", "U+03FB", "U+037B", "U+037C", "U+037D", "U+0450", "U+0451", "U+0452", "U+0453", "U+0454",
      "U+0455", "U+0456", "U+0457", "U+0458", "U+0459", "U+045A", "U+045B", "U+045C", "U+045D", "U+045E",
      "U+045F", "U+0430", "U+0431", "U+0432", "U+0433", "U+0434", "U+0435", "U+0436", "U+0437", "U+0438",
      "U+0439", "U+043A", "U+043B", "U+043C", "U+043D", "U+043E", "U+043F", "U+0440", "U+0441", "U+0442",
      "U+0443", "U+0444", "U+0445", "U+0446", "U+0447", "U+0448", "U+0449", "U+044A", "U+044B", "U+044C",
      "U+044D", "U+044E", "U+044F", "U+0461", "U+0463", "U+0465", "U+0467", "U+0469", "U+046B", "U+046D",
      "U+046F", "U+0471", "U+0473", "U+0475", "U+0477", "U+0479", "U+047B", "U+047D", "U+047F", "U+0481",
      "U+048B", "U+048D", "U+048F", "U+0491", "U+0493", "U+0495", "U+0497", "U+0499", "U+049B", "U+049D",
      "U+049F", "U+04A1", "U+04A3", "U+04A5", "U+04A7", "U+04A9", "U+04AB", "U+04AD", "U+04AF", "U+04B1",
      "U+04B3", "U+04B5", "U+04B7", "U+04B9", "U+04BB", "U+04BD", "U+04BF", "U+04CF", "U+04C2", "U+04C4",
      "U+04C6", "U+04C8", "U+04CA", "U+04CC", "U+04CE", "U+04D1", "U+04D3", "U+04D5", "U+04D7", "U+04D9",
      "U+04DB", "U+04DD", "U+04DF", "U+04E1", "U+04E3", "U+04E5", "U+04E7", "U+04E9", "U+04EB", "U+04ED",
      "U+04EF", "U+04F1", "U+04F3", "U+04F5", "U+04F7", "U+04F9", "U+04FB", "U+04FD", "U+04FF", "U+0501",
      "U+0503", "U+0505", "U+0507", "U+0509", "U+050B", "U+050D", "U+050F", "U+0511", "U+0513", "U+0515",
      "U+0517", "U+0519", "U+051B", "U+051D", "U+051F", "U+0521", "U+0523", "U+0525", "U+0527", "U+0529",
      "U+052B", "U+052D", "U+052F", "U+0561", "U+0562", "U+0563", "U+0564", "U+0565", "U+0566", "U+0567",
      "U+0568", "U+0569", "U+056A", "U+056B", "U+056C", "U+056D", "U+056E", "U+056F", "U+0570", "U+0571",
      "U+0572", "U+0573", "U+0574", "U+0575", "U+0576", "U+0577", "U+0578", "U+0579", "U+057A", "U+057B",
      "U+057C", "U+057D", "U+057E", "U+057F", "U+0580", "U+0581", "U+0582", "U+0583", "U+0584", "U+0585",
      "U+0586", "U+2D00", "U+2D01", "U+2D02", "U+2D03", "U+2D04", "U+2D05", "U+2D06", "U+2D07", "U+2D08",
      "U+2D09", "U+2D0A", "U+2D0B", "U+2D0C", "U+2D0D", "U+2D0E", "U+2D0F", "U+2D10", "U+2D11", "U+2D12",
      "U+2D13", "U+2D14", "U+2D15", "U+2D16", "U+2D17", "U+2D18", "U+2D19", "U+2D1A", "U+2D1B", "U+2D1C",
      "U+2D1D", "U+2D1E", "U+2D1F", "U+2D20", "U+2D21", "U+2D22", "U+2D23", "U+2D24", "U+2D25", "U+2D27",
      "U+2D2D", "U+AB70", "U+AB71", "U+AB72", "U+AB73", "U+AB74", "U+AB75", "U+AB76", "U+AB77", "U+AB78",
      "U+AB79", "U+AB7A", "U+AB7B", "U+AB7C", "U+AB7D", "U+AB7E", "U+AB7F", "U+AB80", "U+AB81", "U+AB82",
      "U+AB83", "U+AB84", "U+AB85", "U+AB86", "U+AB87", "U+AB88", "U+AB89", "U+AB8A", "U+AB8B", "U+AB8C",
      "U+AB8D", "U+AB8E", "U+AB8F", "U+AB90", "U+AB91", "U+AB92", "U+AB93", "U+AB94", "U+AB95", "U+AB96",
      "U+AB97", "U+AB98", "U+AB99", "U+AB9A", "U+AB9B", "U+AB9C", "U+AB9D", "U+AB9E", "U+AB9F", "U+ABA0",
      "U+ABA1", "U+ABA2", "U+ABA3", "U+ABA4", "U+ABA5", "U+ABA6", "U+ABA7", "U+ABA8", "U+ABA9", "U+ABAA",
      "U+ABAB", "U+ABAC", "U+ABAD", "U+ABAE", "U+ABAF", "U+ABB0", "U+ABB1", "U+ABB2", "U+ABB3", "U+ABB4",
      "U+ABB5", "U+ABB6", "U+ABB7", "U+ABB8", "U+ABB9", "U+ABBA", "U+ABBB", "U+ABBC", "U+ABBD", "U+ABBE",
      "U+ABBF", "U+13F8", "U+13F9", "U+13FA", "U+13FB", "U+13FC", "U+13FD", "U+1C8A", "U+10D0", "U+10D1",
      "U+10D2", "U+10D3", "U+10D4", "U+10D5", "U+10D6", "U+10D7", "U+10D8", "U+10D9", "U+10DA", "U+10DB",
      "U+10DC", "U+10DD", "U+10DE", "U+10DF", "U+10E0", "U+10E1", "U+10E2", "U+10E3", "U+10E4", "U+10E5",
      "U+10E6", "U+10E7", "U+10E8", "U+10E9", "U+10EA", "U+10EB", "U+10EC", "U+10ED", "U+10EE", "U+10EF",
      "U+10F0", "U+10F1", "U+10F2", "U+10F3", "U+10F4", "U+10F5", "U+10F6", "U+10F7", "U+10F8", "U+10F9",
      "U+10FA", "U+10FD", "U+10FE", "U+10FF", "U+1E01", "U+1E03", "U+1E05", "U+1E07", "U+1E09", "U+1E0B",
      "U+1E0D", "U+1E0F", "U+1E11", "U+1E13", "U+1E15", "U+1E17", "U+1E19", "U+1E1B", "U+1E1D", "U+1E1F",
      "U+1E21", "U+1E23", "U+1E25", "U+1E27", "U+1E29", "U+1E2B", "U+1E2D", "U+1E2F", "U+1E31", "U+1E33",
      "U+1E35", "U+1E37", "U+1E39", "U+1E3B", "U+1E3D", "U+1E3F", "U+1E41", "U+1E43", "U+1E45", "U+1E47",
      "U+1E49", "U+1E4B", "U+1E4D", "U+1E4F", "U+1E51", "U+1E53", "U+1E55", "U+1E57", "U+1E59", "U+1E5B",
      "U+1E5D", "U+1E5F", "U+1E61", "U+1E63", "U+1E65", "U+1E67", "U+1E69", "U+1E6B", "U+1E6D", "U+1E6F",
      "U+1E71", "U+1E73", "U+1E75", "U+1E77", "U+1E79", "U+1E7B", "U+1E7D", "U+1E7F", "U+1E81", "U+1E83",
      "U+1E85", "U+1E87", "U+1E89", "U+1E8B", "U+1E8D", "U+1E8F", "U+1E91", "U+1E93", "U+1E95", "U+00DF",
      "U+1EA1", "U+1EA3", "U+1EA5", "U+1EA7", "U+1EA9", "U+1EAB", "U+1EAD", "U+1EAF", "U+1EB1", "U+1EB3",
      "U+1EB5", "U+1EB7", "U+1EB9", "U+1EBB", "U+1EBD", "U+1EBF", "U+1EC1", "U+1EC3", "U+1EC5", "U+1EC7",
      "U+1EC9", "U+1ECB", "U+1ECD", "U+1ECF", "U+1ED1", "U+1ED3", "U+1ED5", "U+1ED7", "U+1ED9", "U+1EDB",
      "U+1EDD", "U+1EDF", "U+1EE1", "U+1EE3", "U+1EE5", "U+1EE7", "U+1EE9", "U+1EEB", "U+1EED", "U+1EEF",
      "U+1EF1", "U+1EF3", "U+1EF5", "U+1EF7", "U+1EF9", "U+1EFB", "U+1EFD", "U+1EFF", "U+1F00", "U+1F01",
      "U+1F02", "U+1F03", "U+1F04", "U+1F05", "U+1F06", "U+1F07", "U+1F10", "U+1F11", "U+1F12", "U+1F13",
      "U+1F14", "U+1F15", "U+1F20", "U+1F21", "U+1F22", "U+1F23", "U+1F24", "U+1F25", "U+1F26", "U+1F27",
      "U+1F30", "U+1F31", "U+1F32", "U+1F33", "U+1F34", "U+1F35", "U+1F36", "U+1F37", "U+1F40", "U+1F41",
      "U+1F42", "U+1F43", "U+1F44", "U+1F45", "U+1F51", "U+1F53", "U+1F55", "U+1F57", "U+1F60", "U+1F61",
      "U+1F62", "U+1F63", "U+1F64", "U+1F65", "U+1F66", "U+1F67", "U+1F80", "U+1F81", "U+1F82", "U+1F83",
      "U+1F84", "U+1F85", "U+1F86", "U+1F87", "U+1F90", "U+1F91", "U+1F92", "U+1F93", "U+1F94", "U+1F95",
      "U+1F96", "U+1F97", "U+1FA0", "U+1FA1", "U+1FA2", "U+1FA3", "U+1FA4", "U+1FA5", "U+1FA6", "U+1FA7",
      "U+1FB0", "U+1FB1", "U+1F70", "U+1F71", "U+1FB3", "U+1F72", "U+1F73", "U+1F74", "U+1F75", "U+1FC3",
      "U+1FD0", "U+1FD1", "U+1F76", "U+1F77", "U+1FE0", "U+1FE1", "U+1F7A", "U+1F7B", "U+1FE5", "U+1F78",
      "U+1F79", "U+1F7C", "U+1F7D", "U+1FF3", "U+03C9", "k", "U+00E5", "U+214E", "U+2170", "U+2171",
      "U+2172", "U+2173", "U+2174", "U+2175", "U+2176", "U+2177", "U+2178", "U+2179", "U+217A", "U+217B",
      "U+217C", "U+217D", "U+217E", "U+217F", "U+2184", "U+24D0", "U+24D1", "U+24D2", "U+24D3", "U+24D4",
      "U+24D5", "U+24D6", "U+24D7", "U+24D8", "U+24D9", "U+24DA", "U+24DB", "U+24DC", "U+24DD", "U+24DE",
      "U+24DF", "U+24E0", "U+24E1", "U+24E2", "U+24E3", "U+24E4", "U+24E5", "U+24E6", "U+24E7", "U+24E8",
      "U+24E9", "U+2C30", "U+2C31", "U+2C32", "U+2C33", "U+2C34", "U+2C35", "U+2C36", "U+2C37", "U+2C38",
      "U+2C39", "U+2C3A", "U+2C3B", "U+2C3C", "U+2C3D", "U+2C3E", "U+2C3F", "U+2C40", "U+2C41", "U+2C42",
      "U+2C43", "U+2C44", "U+2C45", "U+2C46", "U+2C47", "U+2C48", "U+2C49", "U+2C4A", "U+2C4B", "U+2C4C",
      "U+2C4D", "U+2C4E", "U+2C4F", "U+2C50", "U+2C51", "U+2C52", "U+2C53", "U+2C54", "U+2C55", "U+2C56",
      "U+2C57", "U+2C58", "U+2C59", "U+2C5A", "U+2C5B", "U+2C5C", "U+2C5D", "U+2C5E", "U+2C5F", "U+2C61",
      "U+026B", "U+1D7D", "U+027D", "U+2C68", "U+2C6A", "U+2C6C", "U+0251", "U+0271", "U+0250", "U+0252",
      "U+2C73", "U+2C76", "U+023F", "U+0240", "U+2C81", "U+2C83", "U+2C85", "U+2C87", "U+2C89", "U+2C8B",
      "U+2C8D", "U+2C8F", "U+2C91", "U+2C93", "U+2C95", "U+2C97", "U+2C99", "U+2C9B", "U+2C9D", "U+2C9F",
      "U+2CA1", "U+2CA3", "U+2CA5", "U+2CA7", "U+2CA9", "U+2CAB", "U+2CAD", "U+2CAF", "U+2CB1", "U+2CB3",
      "U+2CB5", "U+2CB7", "U+2CB9", "U+2CBB", "U+2CBD", "U+2CBF", "U+2CC1", "U+2CC3", "U+2CC5", "U+2CC7",
      "U+2CC9", "U+2CCB", "U+2CCD", "U+2CCF", "U+2CD1", "U+2CD3", "U+2CD5", "U+2CD7", "U+2CD9", "U+2CDB",
      "U+2CDD", "U+2CDF", "U+2CE1", "U+2CE3", "U+2CEC", "U+2CEE", "U+2CF3", "U+A641", "U+A643", "U+A645",
      "U+A647", "U+A649", "U+A64B", "U+A64D", "U+A64F", "U+A651", "U+A653", "U+A655", "U+A657", "U+A659",
      "U+A65B", "U+A65D", "U+A65F", "U+A661", "U+A663", "U+A665", "U+A667", "U+A669", "U+A66B", "U+A66D",
      "U+A681", "U+A683", "U+A685", "U+A687", "U+A689", "U+A68B", "U+A68D", "U+A68F", "U+A691", "U+A693",
      "U+A695", "U+A697", "U+A699", "U+A69B", "U+A723", "U+A725", "U+A727", "U+A729", "U+A72B", "U+A72D",
      "U+A72F", "U+A733", "U+A735", "U+A737", "U+A739", "U+A73B", "U+A73D", "U+A73F", "U+A741", "U+A743",
      "U+A745", "U+A747", "U+A749", "U+A74B", "U+A74D", "U+A74F", "U+A751", "U+A753", "U+A755", "U+A757",
      "U+A759", "U+A75B", "U+A75D", "U+A75F", "U+A761", "U+A763", "U+A765", "U+A767", "U+A769", "U+A76B",
      "U+A76D", "U+A76F", "U+A77A", "U+A77C", "U+1D79", "U+A77F", "U+A781", "U+A783", "U+A785", "U+A787",
      "U+A78C", "U+0265", "U+A791", "U+A793", "U+A797", "U+A799", "U+A79B", "U+A79D", "U+A79F", "U+A7A1",
      "U+A7A3", "U+A7A5", "U+A7A7", "U+A7A9", "U+0266", "U+025C", "U+0261", "U+026C", "U+026A", "U+029E",
      "U+0287", "U+029D", "U+AB53", "U+A7B5", "U+A7B7", "U+A7B9", "U+A7BB", "U+A7BD", "U+A7BF", "U+A7C1",
      "U+A7C3", "U+A794", "U+0282", "U+1D8E", "U+A7C8", "U+A7CA", "U+0264", "U+A7CD", "U+A7CF", "U+A7D1",
      "U+A7D3", "U+A7D5", "U+A7D7", "U+A7D9", "U+A7DB", "U+019B", "U+A7F6", "U+FF41", "U+FF42", "U+FF43",
      "U+FF44", "U+FF45", "U+FF46", "U+FF47", "U+FF48", "U+FF49", "U+FF4A", "U+FF4B", "U+FF4C", "U+FF4D",
      "U+FF4E", "U+FF4F", "U+FF50", "U+FF51", "U+FF52", "U+FF53", "U+FF54", "U+FF55", "U+FF56", "U+FF57",
      "U+FF58", "U+FF59", "U+FF5A", "U+10428", "U+10429", "U+1042A", "U+1042B", "U+1042C", "U+1042D", "U+1042E",
      "U+1042F", "U+10430", "U+10431", "U+10432", "U+10433", "U+10434", "U+10435", "U+10436", "U+10437", "U+10438",
      "U+10439", "U+1043A", "U+1043B", "U+1043C", "U+1043D", "U+1043E", "U+1043F", "U+10440", "U+10441", "U+10442",
      "U+10443", "U+10444", "U+10445", "U+10446", "U+10447", "U+10448", "U+10449", "U+1044A", "U+1044B", "U+1044C",
      "U+1044D", "U+1044E", "U+1044F", "U+104D8", "U+104D9", "U+104DA", "U+104DB", "U+104DC", "U+104DD", "U+104DE",
      "U+104DF", "U+104E0", "U+104E1", "U+104E2", "U+104E3", "U+104E4", "U+104E5", "U+104E6", "U+104E7", "U+104E8",
      "U+104E9", "U+104EA", "U+104EB", "U+104EC", "U+104ED", "U+104EE", "U+104EF", "U+104F0", "U+104F1", "U+104F2",
      "U+104F3", "U+104F4", "U+104F5", "U+104F6", "U+104F7", "U+104F8", "U+104F9", "U+104FA", "U+104FB", "U+10597",
      "U+10598", "U+10599", "U+1059A", "U+1059B", "U+1059C", "U+1059D", "U+1059E", "U+1059F", "U+105A0", "U+105A1",
      "U+105A3", "U+105A4", "U+105A5", "U+105A6", "U+105A7", "U+105A8", "U+105A9", "U+105AA", "U+105AB", "U+105AC",
      "U+105AD", "U+105AE", "U+105AF", "U+105B0", "U+105B1", "U+105B3", "U+105B4", "U+105B5", "U+105B6", "U+105B7",
      "U+105B8", "U+105B9", "U+105BB", "U+105BC", "U+10CC0", "U+10CC1", "U+10CC2", "U+10CC3", "U+10CC4", "U+10CC5",
      "U+10CC6", "U+10CC7", "U+10CC8", "U+10CC9", "U+10CCA", "U+10CCB", "U+10CCC", "U+10CCD", "U+10CCE", "U+10CCF",
      "U+10CD0", "U+10CD1", "U+10CD2", "U+10CD3", "U+10CD4", "U+10CD5", "U+10CD6", "U+10CD7", "U+10CD8", "U+10CD9",
      "U+10CDA", "U+10CDB", "U+10CDC", "U+10CDD", "U+10CDE", "U+10CDF", "U+10CE0", "U+10CE1", "U+10CE2", "U+10CE3",
      "U+10CE4", "U+10CE5", "U+10CE6", "U+10CE7", "U+10CE8", "U+10CE9", "U+10CEA", "U+10CEB", "U+10CEC", "U+10CED",
      "U+10CEE", "U+10CEF", "U+10CF0", "U+10CF1", "U+10CF2", "U+10D70", "U+10D71", "U+10D72", "U+10D73", "U+10D74",
      "U+10D75", "U+10D76", "U+10D77", "U+10D78", "U+10D79", "U+10D7A", "U+10D7B", "U+10D7C", "U+10D7D", "U+10D7E",
      "U+10D7F", "U+10D80", "U+10D81", "U+10D82", "U+10D83", "U+10D84", "U+10D85", "U+118C0", "U+118C1", "U+118C2",
      "U+118C3", "U+118C4", "U+118C5", "U+118C6", "U+118C7", "U+118C8", "U+118C9", "U+118CA", "U+118CB", "U+118CC",
      "U+118CD", "U+118CE", "U+118CF", "U+118D0", "U+118D1", "U+118D2", "U+118D3", "U+118D4", "U+118D5", "U+118D6",
      "U+118D7", "U+118D8", "U+118D9", "U+118DA", "U+118DB", "U+118DC", "U+118DD", "U+118DE", "U+118DF", "U+16E60",
      "U+16E61", "U+16E62", "U+16E63", "U+16E64", "U+16E65", "U+16E66", "U+16E67", "U+16E68", "U+16E69", "U+16E6A",
      "U+16E6B", "U+16E6C", "U+16E6D", "U+16E6E", "U+16E6F", "U+16E70", "U+16E71", "U+16E72", "U+16E73", "U+16E74",
      "U+16E75", "U+16E76", "U+16E77", "U+16E78", "U+16E79", "U+16E7A", "U+16E7B", "U+16E7C", "U+16E7D", "U+16E7E",
      "U+16E7F", "U+16EBB", "U+16EBC", "U+16EBD", "U+16EBE", "U+16EBF", "U+16EC0", "U+16EC1", "U+16EC2", "U+16EC3",
      "U+16EC4", "U+16EC5", "U+16EC6", "U+16EC7", "U+16EC8", "U+16EC9", "U+16ECA", "U+16ECB", "U+16ECC", "U+16ECD",
      "U+16ECE", "U+16ECF", "U+16ED0", "U+16ED1", "U+16ED2", "U+16ED3", "U+1E922", "U+1E923", "U+1E924", "U+1E925",
      "U+1E926", "U+1E927", "U+1E928", "U+1E929", "U+1E92A", "U+1E92B", "U+1E92C", "U+1E92D", "U+1E92E", "U+1E92F",
      "U+1E930", "U+1E931", "U+1E932", "U+1E933", "U+1E934", "U+1E935", "U+1E936", "U+1E937", "U+1E938", "U+1E939",
      "U+1E93A", "U+1E93B", "U+1E93C", "U+1E93D", "U+1E93E", "U+1E93F", "U+1E940", "U+1E941", "U+1E942", "U+1E943">>

CasedOther ==
    {"U+00AA", "U+00B5", "U+00BA", "U+0131", "U+0138", "U+0149", "U+017F", "U+018D", "U+01AA", "U+01AB",
     "U+01BA", "U+01BE", "U+01F0", "U+0221", "U+0234", "U+0235", "U+0236", "U+0237", "U+0238", "U+0239",
     "U+0255", "U+0258", "U+025A", "U+025D", "U+025E", "U+025F", "U+0262", "U+0267", "U+026D", "U+026E",
     "U+0270", "U+0273", "U+0274", "U+0276", "U+0277", "U+0278", "U+0279", "U+027A", "U+027B", "U+027C",
     "U+027E", "U+027F", "U+0281", "U+0284", "U+0285", "U+0286", "U+028D", "U+028E", "U+028F", "U+0290",
     "U+0291", "U+0293", "U+0296", "U+0297", "U+0298", "U+0299", "U+029A", "U+029B", "U+029C", "U+029F",
     "U+02A0", "U+02A1", "U+02A2", "U+02A3", "U+02A4", "U+02A5", "U+02A6", "U+02A7", "U+02A8", "U+02A9",
     "U+02AA", "U+02AB", "U+02AC", "U+02AD", "U+02AE", "U+02AF", "U+0390", "U+03B0", "U+03C2", "U+03D0",
     "U+03D1", "U+03D2", "U+03D3", "U+03D4", "U+03D5", "U+03D6", "U+03F0", "U+03F1", "U+03F5", "U+03FC",
     "U+0560", "U+0587", "U+0588", "U+1C80", "U+1C81", "U+1C82", "U+1C83", "U+1C84", "U+1C85", "U+1C86",
     "U+1C87", "U+1C88", "U+1D00", "U+1D01", "U+1D02", "U+1D03", "U+1D04", "U+1D05", "U+1D06", "U+1D07",
     "U+1D08", "U+1D09", "U+1D0A", "U+1D0B", "U+1D0C", "U+1D0D", "U+1D0E", "U+1D0F", "U+1D10", "U+1D11",
     "U+1D12", "U+1D13", "U+1D14", "U+1D15", "U+1D16", "U+1D17", "U+1D18", "U+1D19", "U+1D1A", "U+1D1B",
     "U+1D1C", "U+1D1D", "U+1D1E", "U+1D1F", "U+1D20", "U+1D21", "U+1D22", "U+1D23", "U+1D24", "U+1D25",
     "U+1D26", "U+1D27", "U+1D28", "U+1D29", "U+1D2A", "U+1D2B", "U+1D6B", "U+1D6C", "U+1D6D", "U+1D6E",
     "U+1D6F", "U+1D70", "U+1D71", "U+1D72", "U+1D73", "U+1D74", "U+1D75", "U+1D76", "U+1D77", "U+1D7A",
     "U+1D7B", "U+1D7C", "U+1D7E", "U+1D7F", "U+1D80", "U+1D81", "U+1D82", "U+1D83", "U+1D84", "U+1D85",
     "U+1D86", "U+1D87", "U+1D88", "U+1D89", "U+1D8A", "U+1D8B", "U+1D8C", "U+1D8D", "U+1D8F", "U+1D90",
     "U+1D91", "U+1D92", "U+1D93", "U+1D94", "U+1D95", "U+1D96", "U+1D97", "U+1D98", "U+1D99", "U+1D9A",
     "U+1E96", "U+1E97", "U+1E98", "U+1E99", "U+1E9A", "U+1E9B", "U+1E9C", "U+1E9D", "U+1E9F", "U+1F50",
     "U+1F52", "U+1F54", "U+1F56", "U+1FB2", "U+1FB4", "U+1FB6", "U+1FB7", "U+1FBE", "U+1FC2", "U+1FC4",
     "U+1FC6", "U+1FC7", "U+1FD2", "U+1FD3", "U+1FD6", "U+1FD7", "U+1FE2", "U+1FE3", "U+1FE4", "U+1FE6",
     "U+1FE7", "U+1FF2", "U+1FF4", "U+1FF6", "U+1FF7", "U+2102", "U+2107", "U+210A", "U+210B", "U+210C",
     "U+210D", "U+210E", "U+210F", "U+2110", "U+2111", "U+2112", "U+2113", "U+2115", "U+2119", "U+211A",
     "U+211B", "U+211C", "U+211D", "U+2124", "U+2128", "U+212C", "U+212D", "U+212F", "U+2130", "U+2131",
     "U+2133", "U+2134", "U+2139", "U+213C", "U+213D", "U+213E", "U+213F", "U+2145", "U+2146", "U+2147",
     "U+2148", "U+2149", "U+2C71", "U+2C74", "U+2C77", "U+2C78", "U+2C79", "U+2C7A", "U+2C7B", "U+2CE4",
     "U+A730", "U+A731", "U+A771", "U+A772", "U+A773", "U+A774", "U+A775", "U+A776", "U+A777", "U+A778",
     "U+A78E", "U+A795", "U+A7AF", "U+A7FA", "U+AB30", "U+AB31", "U+AB32", "U+AB33", "U+AB34", "U+AB35",
     "U+AB36", "U+AB37", "U+AB38", "U+AB39", "U+AB3A", "U+AB3B", "U+AB3C", "U+AB3D", "U+AB3E", "U+AB3F",
     "U+AB40", "U+AB41", "U+AB42", "U+AB43", "U+AB44", "U+AB45", "U+AB46", "U+AB47", "U+AB48", "U+AB49",
     "U+AB4A", "U+AB4B", "U+AB4C", "U+AB4D", "U+AB4E", "U+AB4F", "U+AB50", "U+AB51", "U+AB52", "U+AB54",
     "U+AB55", "U+AB56", "U+AB57", "U+AB58", "U+AB59", "U+AB5A", "U+AB60", "U+AB61", "U+AB62", "U+AB63",
     "U+AB64", "U+AB65", "U+AB66", "U+AB67", "U+AB68", "U+FB00", "U+FB01", "U+FB02", "U+FB03", "U+FB04",
     "U+FB05", "U+FB06", "U+FB13", "U+FB14", "U+FB15", "U+FB16", "U+FB17", "U+1D400", "U+1D401", "U+1D402",
     "U+1D403", "U+1D404", "U+1D405", "U+1D406", "U+1D407", "U+1D408", "U+1D409", "U+1D40A", "U+1D40B", "U+1D40C",
     "U+1D40D", "U+1D40E", "U+1D40F", "U+1D410", "U+1D411", "U+1D412", "U+1D413", "U+1D414", "U+1D415", "U+1D416",
     "U+1D417", "U+1D418", "U+1D419", "U+1D41A", "U+1D41B", "U+1D41C", "U+1D41D", "U+1D41E", "U+1D41F", "U+1D420",
     "U+1D421", "U+1D422", "U+1D423", "U+1D424", "U+1D425", "U+1D426", "U+1D427", "U+1D428", "U+1D429", "U+1D42A",
     "U+1D42B", "U+1D42C", "U+1D42D", "U+1D42E", "U+1D42F", "U+1D430", "U+1D431", "U+1D432", "U+1D433", "U+1D434",
     "U+1D435", "U+1D436", "U+1D437", "U+1D438", "U+1D439", "U+1D43A", "U+1D43B", "U+1D43C", "U+1D43D", "U+1D43E",
     "U+1D43F", "U+1D440", "U+1D441", "U+1D442", "U+1D443", "U+1D444", "U+1D445", "U+1D446", "U+1D447", "U+1D448",
     "U+1D449", "U+1D44A", "U+1D44B", "U+1D44C", "U+1D44D", "U+1D44E", "U+1D44F", "U+1D450", "U+1D451", "U+1D452",
     "U+1D453", "U+1D454", "U+1D456", "U+1D457", "U+1D458", "U+1D459", "U+1D45A", "U+1D45B", "U+1D45C", "U+1D45D",
     "U+1D45E", "U+1D45F", "U+1D460", "U+1D461", "U+1D462", "U+1D463", "U+1D464", "U+1D465", "U+1D466", "U+1D467",
     "U+1D468", "U+1D469", "U+1D46A", "U+1D46B", "U+1D46C", "U+1D46D", "U+1D46E", "U+1D46F", "U+1D470", "U+1D471",
     "U+1D472", "U+1D473", "U+1D474", "U+1D475", "U+1D476", "U+1D477", "U+1D478", "U+1D479", "U+1D47A", "U+1D47B",
     "U+1D47C", "U+1D47D", "U+1D47E", "U+1D47F", "U+1D480", "U+1D481", "U+1D482", "U+1D483", "U+1D484", "U+1D485",
     "U+1D486", "U+1D487", "U+1D488", "U+1D489", "U+1D48A", "U+1D48B", "U+1D48C", "U+1D48D", "U+1D48E", "U+1D48F",
     "U+1D490", "U+1D491", "U+1D492", "U+1D493", "U+1D494", "U+1D495", "U+1D496", "U+1D497", "U+1D498", "U+1D499",
     "U+1D49A", "U+1D49B", "U+1D49C", "U+1D49E", "U+1D49F", "U+1D4A2", "U+1D4A5", "U+1D4A6", "U+1D4A9", "U+1D4AA",
     "U+1D4AB", "U+1D4AC", "U+1D4AE", "U+1D4AF", "U+1D4B0", "U+1D4B1", "U+1D4B2", "U+1D4B3", "U+1D4B4", "U+1D4B5",
     "U+1D4B6", "U+1D4B7", "U+1D4B8", "U+1D4B9", "U+1D4BB", "U+1D4BD", "U+1D4BE", "U+1D4BF", "U+1D4C0", "U+1D4C1",
     "U+1D4C2", "U+1D4C3", "U+1D4C5", "U+1D4C6", "U+1D4C7", "U+1D4C8", "U+1D4C9", "U+1D4CA", "U+1D4CB", "U+1D4CC",
     "U+1D4CD", "U+1D4CE", "U+1D4CF", "U+1D4D0", "U+1D4D1", "U+1D4D2", "U+1D4D3", "U+1D4D4", "U+1D4D5", "U+1D4D6",
     "U+1D4D7", "U+1D4D8", "U+1D4D9", "U+1D4DA", "U+1D4DB", "U+1D4DC", "U+1D4DD", "U+1D4DE", "U+1D4DF", "U+1D4E0",
     "U+1D4E1", "U+1D4E2", "U+1D4E3", "U+1D4E4", "U+1D4E5", "U+1D4E6", "U+1D4E7", "U+1D4E8", "U+1D4E9", "U+1D4EA",
     "U+1D4EB", "U+1D4EC", "U+1D4ED", "U+1D4EE", "U+1D4EF", "U+1D4F0", "U+1D4F1", "U+1D4F2", "U+1D4F3", "U+1D4F4",
     "U+1D4F5", "U+1D4F6", "U+1D4F7", "U+1D4F8", "U+1D4F9", "U+1D4FA", "U+1D4FB", "U+1D4FC", "U+1D4FD", "U+1D4FE",
     "U+1D4FF", "U+1D500", "U+1D501", "U+1D502", "U+1D503", "U+1D504", "U+1D505", "U+1D507", "U+1D508", "U+1D509",
     "U+1D50A", "U+1D50D", "U+1D50E", "U+1D50F", "U+1D510", "U+1D511", "U+1D512", "U+1D513", "U+1D514", "U+1D516",
     "U+1D517", "U+1D518", "U+1D519", "U+1D51A", "U+1D51B", "U+1D51C", "U+1D51E", "U+1D51F", "U+1D520", "U+1D521",
     "U+1D522", "U+1D523", "U+1D524", "U+1D525", "U+1D526", "U+1D527", "U+1D528", "U+1D529", "U+1D52A", "U+1D52B",
     "U+1D52C", "U+1D52D", "U+1D52E", "U+1D52F", "U+1D530", "U+1D531", "U+1D532", "U+1D533", "U+1D534", "U+1D535",
     "U+1D536", "U+1D537", "U+1D538", "U+1D539", "U+1D53B", "U+1D53C", "U+1D53D", "U+1D53E", "U+1D540", "U+1D541",
     "U+1D542", "U+1D543", "U+1D544", "U+1D546", "U+1D54A", "U+1D54B", "U+1D54C", "U+1D54D", "U+1D54E", "U+1D54F",
     "U+1D550", "U+1D552", "U+1D553", "U+1D554", "U+1D555", "U+1D556", "U+1D557", "U+1D558", "U+1D559", "U+1D55A",
     "U+1D55B", "U+1D55C", "U+1D55D", "U+1D55E", "U+1D55F", "U+1D560", "U+1D561", "U+1D562", "U+1D563", "U+1D564",
     "U+1D565", "U+1D566", "U+1D567", "U+1D568", "U+1D569", "U+1D56A", "U+1D56B", "U+1D56C", "U+1D56D", "U+1D56E",
     "U+1D56F", "U+1D570", "U+1D571", "U+1D572", "U+1D573", "U+1D574", "U+1D575", "U+1D576", "U+1D577", "U+1D578",
     "U+1D579", "U+1D57A", "U+1D57B", "U+1D57C", "U+1D57D", "U+1D57E", "U+1D57F", "U+1D580", "U+1D581", "U+1D582",
     "U+1D583", "U+1D584", "U+1D585", "U+1D586", "U+1D587", "U+1D588", "U+1D589", "U+1D58A", "U+1D58B", "U+1D58C",
     "U+1D58D", "U+1D58E", "U+1D58F", "U+1D590", "U+1D591", "U+1D592", "U+1D593", "U+1D594", "U+1D595", "U+1D596",
     "U+1D597", "U+1D598", "U+1D599", "U+1D59A", "U+1D59B", "U+1D59C", "U+1D59D", "U+1D59E", "U+1D59F", "U+1D5A0",
     "U+1D5A1", "U+1D5A2", "U+1D5A3", "U+1D5A4", "U+1D5A5", "U+1D5A6", "U+1D5A7", "U+1D5A8", "U+1D5A9", "U+1D5AA",
     "U+1D5AB", "U+1D5AC", "U+1D5AD", "U+1D5AE", "U+1D5AF", "U+1D5B0", "U+1D5B1", "U+1D5B2", "U+1D5B3", "U+1D5B4",
     "U+1D5B5", "U+1D5B6", "U+1D5B7", "U+1D5B8", "U+1D5B9", "U+1D5BA", "U+1D5BB", "U+1D5BC", "U+1D5BD", "U+1D5BE",
     "U+1D5BF", "U+1D5C0", "U+1D5C1", "U+1D5C2", "U+1D5C3", "U+1D5C4", "U+1D5C5", "U+1D5C6", "U+1D5C7", "U+1D5C8",
     "U+1D5C9", "U+1D5CA", "U+1D5CB", "U+1D5CC", "U+1D5CD", "U+1D5CE", "U+1D5CF", "U+1D5D0", "U+1D5D1", "U+1D5D2",
     "U+1D5D3", "U+1D5D4", "U+1D5D5", "U+1D5D6", "U+1D5D7", "U+1D5D8", "U+1D5D9", "U+1D5DA", "U+1D5DB", "U+1D5DC",
     "U+1D5DD", "U+1D5DE", "U+1D5DF", "U+1D5E0", "U+1D5E1", "U+1D5E2", "U+1D5E3", "U+1D5E4", "U+1D5E5", "U+1D5E6",
     "U+1D5E7", "U+1D5E8", "U+1D5E9", "U+1D5EA", "U+1D5EB", "U+1D5EC", "U+1D5ED", "U+1D5EE", "U+1D5EF", "U+1D5F0",
     "U+1D5F1", "U+1D5F2", "U+1D5F3", "U+1D5F4", "U+1D5F5", "U+1D5F6", "U+1D5F7", "U+1D5F8", "U+1D5F9", "U+1D5FA",
     "U+1D5FB", "U+1D5FC", "U+1D5FD", "U+1D5FE", "U+1D5FF", "U+1D600", "U+1D601", "U+1D602", "U+1D603", "U+1D604",
     "U+1D605", "U+1D606", "U+1D607", "U+1D608", "U+1D609", "U+1D60A", "U+1D60B", "U+1D60C", "U+1D60D", "U+1D60E",
     "U+1D60F", "U+1D610", "U+1D611", "U+1D612", "U+1D613", "U+1D614", "U+1D615", "U+1D616", "U+1D617", "U+1D618",
     "U+1D619", "U+1D61A", "U+1D61B", "U+1D61C", "U+1D61D", "U+1D61E", "U+1D61F", "U+1D620", "U+1D621", "U+1D622",
     "U+1D623", "U+1D624", "U+1D625", "U+1D626", "U+1D627", "U+1D628", "U+1D629", "U+1D62A", "U+1D62B", "U+1D62C",
     "U+1D62D", "U+1D62E", "U+1D62F", "U+1D630", "U+1D631", "U+1D632", "U+1D633", "U+1D634", "U+1D635", "U+1D636",
     "U+1D637", "U+1D638", "U+1D639", "U+1D63A", "U+1D63B", "U+1D63C", "U+1D63D", "U+1D63E", "U+1D63F", "U+1D640",
     "U+1D641", "U+1D642", "U+1D643", "U+1D644", "U+1D645", "U+1D646", "U+1D647", "U+1D648", "U+1D649", "U+1D64A",
     "U+1D64B", "U+1D64C", "U+1D64D", "U+1D64E", "U+1D64F", "U+1D650", "U+1D651", "U+1D652", "U+1D653", "U+1D654",
     "U+1D655", "U+1D656", "U+1D657", "U+1D658", "U+1D659", "U+1D65A", "U+1D65B", "U+1D65C", "U+1D65D", "U+1D65E",
     "U+1D65F", "U+1D660", "U+1D661", "U+1D662", "U+1D663", "U+1D664", "U+1D665", "U+1D666", "U+1D667", "U+1D668",
     "U+1D669", "U+1D66A", "U+1D66B", "U+1D66C", "U+1D66D", "U+1D66E", "U+1D66F", "U+1D670", "U+1D671", "U+1D672",
     "U+1D673", "U+1D674", "U+1D675", "U+1D676", "U+1D677", "U+1D678", "U+1D679", "U+1D67A", "U+1D67B", "U+1D67C",
     "U+1D67D", "U+1D67E", "U+1D67F", "U+1D680", "U+1D681", "U+1D682", "U+1D683", "U+1D684", "U+1D685", "U+1D686",
     "U+1D687", "U+1D688", "U+1D689", "U+1D68A", "U+1D68B", "U+1D68C", "U+1D68D", "U+1D68E", "U+1D68F", "U+1D690",
     "U+1D691", "U+1D692", "U+1D693", "U+1D694", "U+1D695", "U+1D696", "U+1D697", "U+1D698", "U+1D699", "U+1D69A",
     "U+1D69B", "U+1D69C", "U+1D69D", "U+1D69E", "U+1D69F", "U+1D6A0", "U+1D6A1", "U+1D6A2", "U+1D6A3", "U+1D6A4",
     "U+1D6A5", "U+1D6A8", "U+1D6A9", "U+1D6AA", "U+1D6AB", "U+1D6AC", "U+1D6AD", "U+1D6AE", "U+1D6AF", "U+1D6B0",
     "U+1D6B1", "U+1D6B2", "U+1D6B3", "U+1D6B4", "U+1D6B5", "U+1D6B6", "U+1D6B7", "U+1D6B8", "U+1D6B9", "U+1D6BA",
     "U+1D6BB", "U+1D6BC", "U+1D6BD", "U+1D6BE", "U+1D6BF", "U+1D6C0", "U+1D6C2", "U+1D6C3", "U+1D6C4", "U+1D6C5",
     "U+1D6C6", "U+1D6C7", "U+1D6C8", "U+1D6C9", "U+1D6CA", "U+1D6CB", "U+1D6CC", "U+1D6CD", "U+1D6CE", "U+1D6CF",
     "U+1D6D0", "U+1D6D1", "U+1D6D2", "U+1D6D3", "U+1D6D4", "U+1D6D5", "U+1D6D6", "U+1D6D7", "U+1D6D8", "U+1D6D9",
     "U+1D6DA", "U+1D6DC", "U+1D6DD", "U+1D6DE", "U+1D6DF", "U+1D6E0", "U+1D6E1", "U+1D6E2", "U+1D6E3", "U+1D6E4",
     "U+1D6E5", "U+1D6E6", "U+1D6E7", "U+1D6E8", "U+1D6E9", "U+1D6EA", "U+1D6EB", "U+1D6EC", "U+1D6ED", "U+1D6EE",
     "U+1D6EF", "U+1D6F0", "U+1D6F1", "U+1D6F2", "U+1D6F3", "U+1D6F4", "U+1D6F5", "U+1D6F6", "U+1D6F7", "U+1D6F8",
     "U+1D6F9", "U+1D6FA", "U+1D6FC", "U+1D6FD", "U+1D6FE", "U+1D6FF", "U+1D700", "U+1D701", "U+1D702", "U+1D703",
     "U+1D704", "U+1D705", "U+1D706", "U+1D707", "U+1D708", "U+1D709", "U+1D70A", "U+1D70B", "U+1D70C", "U+1D70D",
     "U+1D70E", "U+1D70F", "U+1D710", "U+1D711", "U+1D712", "U+1D713", "U+1D714", "U+1D716", "U+1D717", "U+1D718",
     "U+1D719", "U+1D71A", "U+1D71B", "U+1D71C", "U+1D71D", "U+1D71E", "U+1D71F", "U+1D720", "U+1D721", "U+1D722",
     "U+1D723", "U+1D724", "U+1D725", "U+1D726", "U+1D727", "U+1D728", "U+1D729", "U+1D72A", "U+1D72B", "U+1D72C",
     "U+1D72D", "U+1D72E", "U+1D72F", "U+1D730", "U+1D731", "U+1D732", "U+1D733", "U+1D734", "U+1D736", "U+1D737",
     "U+1D738", "U+1D739", "U+1D73A", "U+1D73B", "U+1D73C", "U+1D73D", "U+1D73E", "U+1D73F", "U+1D740", "U+1D741",
     "U+1D742", "U+1D743", "U+1D744", "U+1D745", "U+1D746", "U+1D747", "U+1D748", "U+1D749", "U+1D74A", "U+1D74B",
     "U+1D74C", "U+1D74D", "U+1D74E", "U+1D750", "U+1D751", "U+1D752", "U+1D753", "U+1D754", "U+1D755", "U+1D756",
     "U+1D757", "U+1D758", "U+1D759", "U+1D75A", "U+1D75B", "U+1D75C", "U+1D75D", "U+1D75E", "U+1D75F", "U+1D760",
     "U+1D761", "U+1D762", "U+1D763", "U+1D764", "U+1D765", "U+1D766", "U+1D767", "U+1D768", "U+1D769", "U+1D76A",
     "U+1D76B", "U+1D76C", "U+1D76D", "U+1D76E", "U+1D770", "U+1D771", "U+1D772", "U+1D773", "U+1D774", "U+1D775",
     "U+1D776", "U+1D777", "U+1D778", "U+1D779", "U+1D77A", "U+1D77B", "U+1D77C", "U+1D77D", "U+1D77E", "U+1D77F",
     "U+1D780", "U+1D781", "U+1D782", "U+1D783", "U+1D784", "U+1D785", "U+1D786", "U+1D787", "U+1D788", "U+1D78A",
     "U+1D78B", "U+1D78C", "U+1D78D", "U+1D78E", "U+1D78F", "U+1D790", "U+1D791", "U+1D792", "U+1D793", "U+1D794",
     "U+1D795", "U+1D796", "U+1D797", "U+1D798", "U+1D799", "U+1D79A", "U+1D79B", "U+1D79C", "U+1D79D", "U+1D79E",
     "U+1D79F", "U+1D7A0", "U+1D7A1", "U+1D7A2", "U+1D7A3", "U+1D7A4", "U+1D7A5", "U+1D7A6", "U+1D7A7", "U+1D7A8",
     "U+1D7AA", "U+1D7AB", "U+1D7AC", "U+1D7AD", "U+1D7AE", "U+1D7AF", "U+1D7B0", "U+1D7B1", "U+1D7B2", "U+1D7B3",
     "U+1D7B4", "U+1D7B5", "U+1D7B6", "U+1D7B7", "U+1D7B8", "U+1D7B9", "U+1D7BA", "U+1D7BB", "U+1D7BC", "U+1D7BD",
     "U+1D7BE", "U+1D7BF", "U+1D7C0", "U+1D7C1", "U+1D7C2", "U+1D7C4", "U+1D7C5", "U+1D7C6", "U+1D7C7", "U+1D7C8",
     "U+1D7C9", "U+1D7CA", "U+1D7CB", "U+1DF00", "U+1DF01", "U+1DF02", "U+1DF03", "U+1DF04", "U+1DF05", "U+1DF06",
     "U+1DF07", "U+1DF08", "U+1DF09", "U+1DF0B", "U+1DF0C", "U+1DF0D", "U+1DF0E", "U+1DF0F", "U+1DF10", "U+1DF11",
     "U+1DF12", "U+1DF13", "U+1DF14", "U+1DF15", "U+1DF16", "U+1DF17", "U+1DF18", "U+1DF19", "U+1DF1A", "U+1DF1B",
     "U+1DF1C", "U+1DF1D", "U+1DF1E", "U+1DF25", "U+1DF26", "U+1DF27", "U+1DF28", "U+1DF29", "U+1DF2A", "U+1F130",
     "U+1F131", "U+1F132", "U+1F133", "U+1F134", "U+1F135", "U+1F136", "U+1F137", "U+1F138", "U+1F139", "U+1F13A",
     "U+1F13B", "U+1F13C", "U+1F13D", "U+1F13E", "U+1F13F", "U+1F140", "U+1F141", "U+1F142", "U+1F143", "U+1F144",
     "U+1F145", "U+1F146", "U+1F147", "U+1F148", "U+1F149", "U+1F150", "U+1F151", "U+1F152", "U+1F153", "U+1F154",
     "U+1F155", "U+1F156", "U+1F157", "U+1F158", "U+1F159", "U+1F15A", "U+1F15B", "U+1F15C", "U+1F15D", "U+1F15E",
     "U+1F15F", "U+1F160", "U+1F161", "U+1F162", "U+1F163", "U+1F164", "U+1F165", "U+1F166", "U+1F167", "U+1F168",
     "U+1F169", "U+1F170", "U+1F171", "U+1F172", "U+1F173", "U+1F174", "U+1F175", "U+1F176", "U+1F177", "U+1F178",
     "U+1F179", "U+1F17A", "U+1F17B", "U+1F17C", "U+1F17D", "U+1F17E", "U+1F17F", "U+1F180", "U+1F181", "U+1F182",
     "U+1F183", "U+1F184", "U+1F185", "U+1F186", "U+1F187", "U+1F188", "U+1F189"}

CaseIgnorable ==
    {"'", ".", ":", "^", "U+0060", "U+00A8", "U+00AD", "U+00AF", "U+00B4", "U+00B7",
     "U+00B8", "U+02B0", "U+02B1", "U+02B2", "U+02B3", "U+02B4", "U+02B5", "U+02B6", "U+02B7", "U+02B8",
     "U+02B9", "U+02BA", "U+02BB", "U+02BC", "U+02BD", "U+02BE", "U+02BF", "U+02C0", "U+02C1", "U+02C2",
     "U+02C3", "U+02C4", "U+02C5", "U+02C6", "U+02C7", "U+02C8", "U+02C9", "U+02CA", "U+02CB", "U+02CC",
     "U+02CD", "U+02CE", "U+02CF", "U+02D0", "U+02D1", "U+02D2", "U+02D3", "U+02D4", "U+02D5", "U+02D6",
     "U+02D7", "U+02D8", "U+02D9", "U+02DA", "U+02DB", "U+02DC", "U+02DD", "U+02DE", "U+02DF", "U+02E0",
     "U+02E1", "U+02E2", "U+02E3", "U+02E4", "U+02E5", "U+02E6", "U+02E7", "U+02E8", "U+02E9", "U+02EA",
     "U+02EB", "U+02EC", "U+02ED", "U+02EE", "U+02EF", "U+02F0", "U+02F1", "U+02F2", "U+02F3", "U+02F4",
     "U+02F5", "U+02F6", "U+02F7", "U+02F8", "U+02F9", "U+02FA", "U+02FB", "U+02FC", "U+02FD", "U+02FE",
     "U+02FF", "U+0300", "U+0301", "U+0302", "U+0303", "U+0304", "U+0305", "U+0306", "U+0307", "U+0308",
     "U+0309", "U+030A", "U+030B", "U+030C", "U+030D", "U+030E", "U+030F", "U+0310", "U+0311", "U+0312",
     "U+0313", "U+0314", "U+0315", "U+0316", "U+0317", "U+0318", "U+0319", "U+031A", "U+031B", "U+031C",
     "U+031D", "U+031E", "U+031F", "U+0320", "U+0321", "U+0322", "U+0323", "U+0324", "U+0325", "U+0326",
     "U+0327", "U+0328", "U+0329", "U+032A", "U+032B", "U+032C", "U+032D", "U+032E", "U+032F", "U+0330",
     "U+0331", "U+0332", "U+0333", "U+0334", "U+0335", "U+0336", "U+0337", "U+0338", "U+0339", "U+033A",
     "U+033B", "U+033C", "U+033D", "U+033E", "U+033F", "U+0340", "U+0341", "U+0342", "U+0343", "U+0344",
     "U+0345", "U+0346", "U+0347", "U+0348", "U+0349", "U+034A", "U+034B", "U+034C", "U+034D", "U+034E",
     "U+034F", "U+0350", "U+0351", "U+0352", "U+0353", "U+0354", "U+0355", "U+0356", "U+0357", "U+0358",
     "U+0359", "U+035A", "U+035B", "U+035C", "U+035D", "U+035E", "U+035F", "U+0360", "U+0361", "U+0362",
     "U+0363", "U+0364", "U+0365", "U+0366", "U+0367", "U+0368", "U+0369", "U+036A", "U+036B", "U+036C",
     "U+036D", "U+036E", "U+036F", "U+0374", "U+0375", "U+037A", "U+0384", "U+0385", "U+0387", "U+0483",
     "U+0484", "U+0485", "U+0486", "U+0487", "U+0488", "U+0489", "U+0559", "U+055F", "U+0591", "U+0592",
     "U+0593", "U+0594", "U+0595", "U+0596", "U+0597", "U+0598", "U+0599", "U+059A", "U+059B", "U+059C",
     "U+059D", "U+059E", "U+059F", "U+05A0", "U+05A1", "U+05A2", "U+05A3", "U+05A4", "U+05A5", "U+05A6",
     "U+05A7", "U+05A8", "U+05A9", "U+05AA", "U+05AB", "U+05AC", "U+05AD", "U+05AE", "U+05AF", "U+05B0",
     "U+05B1", "U+05B2", "U+05B3", "U+05B4", "U+05B5", "U+05B6", "U+05B7", "U+05B8", "U+05B9", "U+05BA",
     "U+05BB", "U+05BC", "U+05BD", "U+05BF", "U+05C1", "U+05C2", "U+05C4", "U+05C5", "U+05C7", "U+05F4",
     "U+0600", "U+0601", "U+0602", "U+0603", "U+0604", "U+0605", "U+0610", "U+0611", "U+0612", "U+0613",
     "U+0614", "U+0615", "U+0616", "U+0617", "U+0618", "U+0619", "U+061A", "U+061C", "U+0640", "U+064B",
     "U+064C", "U+064D", "U+064E", "U+064F", "U+0650", "U+0651", "U+0652", "U+0653", "U+0654", "U+0655",
     "U+0656", "U+0657", "U+0658", "U+0659", "U+065A", "U+065B", "U+065C", "U+065D", "U+065E", "U+065F",
     "U+0670", "U+06D6", "U+06D7", "U+06D8", "U+06D9", "U+06DA", "U+06DB", "U+06DC", "U+06DD", "U+06DF",
     "U+06E0", "U+06E1", "U+06E2", "U+06E3", "U+06E4", "U+06E5", "U+06E6", "U+06E7", "U+06E8", "U+06EA",
     "U+06EB", "U+06EC", "U+06ED", "U+070F", "U+0711", "U+0730", "U+0731", "U+0732", "U+0733", "U+0734",
     "U+0735", "U+0736", "U+0737", "U+0738", "U+0739", "U+073A", "U+073B", "U+073C", "U+073D", "U+073E",
     "U+073F", "U+0740", "U+0741", "U+0742", "U+0743", "U+0744", "U+0745", "U+0746", "U+0747", "U+0748",
     "U+0749", "U+074A", "U+07A6", "U+07A7", "U+07A8", "U+07A9", "U+07AA", "U+07AB", "U+07AC", "U+07AD",
     "U+07AE", "U+07AF", "U+07B0", "U+07EB", "U+07EC", "U+07ED", "U+07EE", "U+07EF", "U+07F0", "U+07F1",
     "U+07F2", "U+07F3", "U+07F4", "U+07F5", "U+07FA", "U+07FD", "U+0816", "U+0817", "U+0818", "U+0819",
     "U+081A", "U+081B", "U+081C", "U+081D", "U+081E", "U+081F", "U+0820", "U+0821", "U+0822", "U+0823",
     "U+0824", "U+0825", "U+0826", "U+0827", "U+0828", "U+0829", "U+082A", "U+082B", "U+082C", "U+082D",
     "U+0859", "U+085A", "U+085B", "U+0888", "U+0890", "U+0891", "U+0897", "U+0898", "U+0899", "U+089A",
     "U+089B", "U+089C", "U+089D", "U+089E", "U+089F", "U+08C9", "U+08CA", "U+08CB", "U+08CC", "U+08CD",
     "U+08CE", "U+08CF", "U+08D0", "U+08D1", "U+08D2", "U+08D3", "U+08D4", "U+08D5", "U+08D6", "U+08D7",
     "U+08D8", "U+08D9", "U+08DA", "U+08DB", "U+08DC", "U+08DD", "U+08DE", "U+08DF", "U+08E0", "U+08E1",
     "U+08E2", "U+08E3", "U+08E4", "U+08E5", "U+08E6", "U+08E7", "U+08E8", "U+08E9", "U+08EA", "U+08EB",
     "U+08EC", "U+08ED", "U+08EE", "U+08EF", "U+08F0", "U+08F1", "U+08F2", "U+08F3", "U+08F4", "U+08F5",
     "U+08F6", "U+08F7", "U+08F8", "U+08F9", "U+08FA", "U+08FB", "U+08FC", "U+08FD", "U+08FE", "U+08FF",
     "U+0900", "U+0901", "U+0902", "U+093A", "U+093C", "U+0941", "U+0942", "U+0943", "U+0944", "U+0945",
     "U+0946", "U+0947", "U+0948", "U+094D", "U+0951", "U+0952", "U+0953", "U+0954", "U+0955", "U+0956",
     "U+0957", "U+0962", "U+0963", "U+0971", "U+0981", "U+09BC", "U+09C1", "U+09C2", "U+09C3", "U+09C4",
     "U+09CD", "U+09E2", "U+09E3", "U+09FE", "U+0A01", "U+0A02", "U+0A3C", "U+0A41", "U+0A42", "U+0A47",
     "U+0A48", "U+0A4B", "U+0A4C", "U+0A4D", "U+0A51", "U+0A70", "U+0A71", "U+0A75", "U+0A81", "U+0A82",
     "U+0ABC", "U+0AC1", "U+0AC2", "U+0AC3", "U+0AC4", "U+0AC5", "U+0AC7", "U+0AC8", "U+0ACD", "U+0AE2",
     "U+0AE3", "U+0AFA", "U+0AFB", "U+0AFC", "U+0AFD", "U+0AFE", "U+0AFF", "U+0B01", "U+0B3C", "U+0B3F",
     "U+0B41", "U+0B42", "U+0B43", "U+0B44", "U+0B4D", "U+0B55", "U+0B56", "U+0B62", "U+0B63", "U+0B82",
     "U+0BC0", "U+0BCD", "U+0C00", "U+0C04", "U+0C3C", "U+0C3E", "U+0C3F", "U+0C40", "U+0C46", "U+0C47",
     "U+0C48", "U+0C4A", "U+0C4B", "U+0C4C", "U+0C4D", "U+0C55", "U+0C56", "U+0C62", "U+0C63", "U+0C81",
     "U+0CBC", "U+0CBF", "U+0CC6", "U+0CCC", "U+0CCD", "U+0CE2", "U+0CE3", "U+0D00", "U+0D01", "U+0D3B",
     "U+0D3C", "U+0D41", "U+0D42", "U+0D43", "U+0D44", "U+0D4D", "U+0D62", "U+0D63", "U+0D81", "U+0DCA",
     "U+0DD2", "U+0DD3", "U+0DD4", "U+0DD6", "U+0E31", "U+0E34", "U+0E35", "U+0E36", "U+0E37", "U+0E38",
     "U+0E39", "U+0E3A", "U+0E46", "U+0E47", "U+0E48", "U+0E49", "U+0E4A", "U+0E4B", "U+0E4C", "U+0E4D",
     "U+0E4E", "U+0EB1", "U+0EB4", "U+0EB5", "U+0EB6", "U+0EB7", "U+0EB8", "U+0EB9", "U+0EBA", "U+0EBB",
     "U+0EBC", "U+0EC6", "U+0EC8", "U+0EC9", "U+0ECA", "U+0ECB", "U+0ECC", "U+0ECD", "U+0ECE", "U+0F18",
     "U+0F19", "U+0F35", "U+0F37", "U+0F39", "U+0F71", "U+0F72", "U+0F73", "U+0F74", "U+0F75", "U+0F76",
     "U+0F77", "U+0F78", "U+0F79", "U+0F7A", "U+0F7B", "U+0F7C", "U+0F7D", "U+0F7E", "U+0F80", "U+0F81",
     "U+0F82", "U+0F83", "U+0F84", "U+0F86", "U+0F87", "U+0F8D", "U+0F8E", "U+0F8F", "U+0F90", "U+0F91",
     "U+0F92", "U+0F93", "U+0F94", "U+0F95", "U+0F96", "U+0F97", "U+0F99", "U+0F9A", "U+0F9B", "U+0F9C",
     "U+0F9D", "U+0F9E", "U+0F9F", "U+0FA0", "U+0FA1", "U+0FA2", "U+0FA3", "U+0FA4", "U+0FA5", "U+0FA6",
     "U+0FA7", "U+0FA8", "U+0FA9", "U+0FAA", "U+0FAB", "U+0FAC", "U+0FAD", "U+0FAE", "U+0FAF", "U+0FB0",
     "U+0FB1", "U+0FB2", "U+0FB3", "U+0FB4", "U+0FB5", "U+0FB6", "U+0FB7", "U+0FB8", "U+0FB9", "U+0FBA",
     "U+0FBB", "U+0FBC", "U+0FC6", "U+102D", "U+102E", "U+102F", "U+1030", "U+1032", "U+1033", "U+1034",
     "U+1035", "U+1036", "U+1037", "U+1039", "U+103A", "U+103D", "U+103E", "U+1058", "U+1059", "U+105E",
     "U+105F", "U+1060", "U+1071", "U+1072", "U+1073", "U+1074", "U+1082", "U+1085", "U+1086", "U+108D",
     "U+109D", "U+10FC", "U+135D", "U+135E", "U+135F", "U+1712", "U+1713", "U+1714", "U+1732", "U+1733",
     "U+1752", "U+1753", "U+1772", "U+1773", "U+17B4", "U+17B5", "U+17B7", "U+17B8", "U+17B9", "U+17BA",
     "U+17BB", "U+17BC", "U+17BD", "U+17C6", "U+17C9", "U+17CA", "U+17CB", "U+17CC", "U+17CD", "U+17CE",
     "U+17CF", "U+17D0", "U+17D1", "U+17D2", "U+17D3", "U+17D7", "U+17DD", "U+180B", "U+180C", "U+180D",
     "U+180E", "U+180F", "U+1843", "U+1885", "U+1886", "U+18A9", "U+1920", "U+1921", "U+1922", "U+1927",
     "U+1928", "U+1932", "U+1939", "U+193A", "U+193B", "U+1A17", "U+1A18", "U+1A1B", "U+1A56", "U+1A58",
     "U+1A59", "U+1A5A", "U+1A5B", "U+1A5C", "U+1A5D", "U+1A5E", "U+1A60", "U+1A62", "U+1A65", "U+1A66",
     "U+1A67", "U+1A68", "U+1A69", "U+1A6A", "U+1A6B", "U+1A6C", "U+1A73", "U+1A74", "U+1A75", "U+1A76",
     "U+1A77", "U+1A78", "U+1A79", "U+1A7A", "U+1A7B", "U+1A7C", "U+1A7F", "U+1AA7", "U+1AB0", "U+1AB1",
     "U+1AB2", "U+1AB3", "U+1AB4", "U+1AB5", "U+1AB6", "U+1AB7", "U+1AB8", "U+1AB9", "U+1ABA", "U+1ABB",
     "U+1ABC", "U+1ABD", "U+1ABE", "U+1ABF", "U+1AC0", "U+1AC1", "U+1AC2", "U+1AC3", "U+1AC4", "U+1AC5",
     "U+1AC6", "U+1AC7", "U+1AC8", "U+1AC9", "U+1ACA", "U+1ACB", "U+1ACC", "U+1ACD", "U+1ACE", "U+1ACF",
     "U+1AD0", "U+1AD1", "U+1AD2", "U+1AD3", "U+1AD4", "U+1AD5", "U+1AD6", "U+1AD7", "U+1AD8", "U+1AD9",
     "U+1ADA", "U+1ADB", "U+1ADC", "U+1ADD", "U+1AE0", "U+1AE1", "U+1AE2", "U+1AE3", "U+1AE4", "U+1AE5",
     "U+1AE6", "U+1AE7", "U+1AE8", "U+1AE9", "U+1AEA", "U+1AEB", "U+1B00", "U+1B01", "U+1B02", "U+1B03",
     "U+1B34", "U+1B36", "U+1B37", "U+1B38", "U+1B39", "U+1B3A", "U+1B3C", "U+1B42", "U+1B6B", "U+1B6C",
     "U+1B6D", "U+1B6E", "U+1B6F", "U+1B70", "U+1B71", "U+1B72", "U+1B73", "U+1B80", "U+1B81", "U+1BA2",
     "U+1BA3", "U+1BA4", "U+1BA5", "U+1BA8", "U+1BA9", "U+1BAB", "U+1BAC", "U+1BAD", "U+1BE6", "U+1BE8",
     "U+1BE9", "U+1BED", "U+1BEF", "U+1BF0", "U+1BF1", "U+1C2C", "U+1C2D", "U+1C2E", "U+1C2F", "U+1C30",
     "U+1C31", "U+1C32", "U+1C33", "U+1C36", "U+1C37", "U+1C78", "U+1C79", "U+1C7A", "U+1C7B", "U+1C7C",
     "U+1C7D", "U+1CD0", "U+1CD1", "U+1CD2", "U+1CD4", "U+1CD5", "U+1CD6", "U+1CD7", "U+1CD8", "U+1CD9",
     "U+1CDA", "U+1CDB", "U+1CDC", "U+1CDD", "U+1CDE", "U+1CDF", "U+1CE0", "U+1CE2", "U+1CE3", "U+1CE4",
     "U+1CE5", "U+1CE6", "U+1CE7", "U+1CE8", "U+1CED", "U+1CF4", "U+1CF8", "U+1CF9", "U+1D2C", "U+1D2D",
     "U+1D2E", "U+1D2F", "U+1D30", "U+1D31", "U+1D32", "U+1D33", "U+1D34", "U+1D35", "U+1D36", "U+1D37",
     "U+1D38", "U+1D39", "U+1D3A", "U+1D3B", "U+1D3C", "U+1D3D", "U+1D3E", "U+1D3F", "U+1D40", "U+1D41",
     "U+1D42", "U+1D43", "U+1D44", "U+1D45", "U+1D46", "U+1D47", "U+1D48", "U+1D49", "U+1D4A", "U+1D4B",
     "U+1D4C", "U+1D4D", "U+1D4E", "U+1D4F", "U+1D50", "U+1D51", "U+1D52", "U+1D53", "U+1D54", "U+1D55",
     "U+1D56", "U+1D57", "U+1D58", "U+1D59", "U+1D5A", "U+1D5B", "U+1D5C", "U+1D5D", "U+1D5E", "U+1D5F",
     "U+1D60", "U+1D61", "U+1D62", "U+1D63", "U+1D64", "U+1D65", "U+1D66", "U+1D67", "U+1D68", "U+1D69",
     "U+1D6A", "U+1D78", "U+1D9B", "U+1D9C", "U+1D9D", "U+1D9E", "U+1D9F", "U+1DA0", "U+1DA1", "U+1DA2",
     "U+1DA3", "U+1DA4", "U+1DA5", "U+1DA6", "U+1DA7", "U+1DA8", "U+1DA9", "U+1DAA", "U+1DAB", "U+1DAC",
     "U+1DAD", "U+1DAE", "U+1DAF", "U+1DB0", "U+1DB1", "U+1DB2", "U+1DB3", "U+1DB4", "U+1DB5", "U+1DB6",
     "U+1DB7", "U+1DB8", "U+1DB9", "U+1DBA", "U+1DBB", "U+1DBC", "U+1DBD", "U+1DBE", "U+1DBF", "U+1DC0",
     "U+1DC1", "U+1DC2", "U+1DC3", "U+1DC4", "U+1DC5", "U+1DC6", "U+1DC7", "U+1DC8", "U+1DC9", "U+1DCA",
     "U+1DCB", "U+1DCC", "U+1DCD", "U+1DCE", "U+1DCF", "U+1DD0", "U+1DD1", "U+1DD2", "U+1DD3", "U+1DD4",
     "U+1DD5", "U+1DD6", "U+1DD7", "U+1DD8", "U+1DD9", "U+1DDA", "U+1DDB", "U+1DDC", "U+1DDD", "U+1DDE",
     "U+1DDF", "U+1DE0", "U+1DE1", "U+1DE2", "U+1DE3", "U+1DE4", "U+1DE5", "U+1DE6", "U+1DE7", "U+1DE8",
     "U+1DE9", "U+1DEA", "U+1DEB", "U+1DEC", "U+1DED", "U+1DEE", "U+1DEF", "U+1DF0", "U+1DF1", "U+1DF2",
     "U+1DF3", "U+1DF4", "U+1DF5", "U+1DF6", "U+1DF7", "U+1DF8", "U+1DF9", "U+1DFA", "U+1DFB", "U+1DFC",
     "U+1DFD", "U+1DFE", "U+1DFF", "U+1FBD", "U+1FBF", "U+1FC0", "U+1FC1", "U+1FCD", "U+1FCE", "U+1FCF",
     "U+1FDD", "U+1FDE", "U+1FDF", "U+1FED", "U+1FEE", "U+1FEF", "U+1FFD", "U+1FFE", "U+200B", "U+200C",
     "U+200D", "U+200E", "U+200F", "U+2018", "U+2019", "U+2024", "U+2027", "U+202A", "U+202B", "U+202C",
     "U+202D", "U+202E", "U+2060", "U+2061", "U+2062", "U+2063", "U+2064", "U+2066", "U+2067", "U+2068",
     "U+2069", "U+206A", "U+206B", "U+206C", "U+206D", "U+206E", "U+206F", "U+2071", "U+207F", "U+2090",
     "U+2091", "U+2092", "U+2093", "U+2094", "U+2095", "U+2096", "U+2097", "U+2098", "U+2099", "U+209A",
     "U+209B", "U+209C", "U+20D0", "U+20D1", "U+20D2", "U+20D3", "U+20D4", "U+20D5", "U+20D6", "U+20D7",
     "U+20D8", "U+20D9", "U+20DA", "U+20DB", "U+20DC", "U+20DD", "U+20DE", "U+20DF", "U+20E0", "U+20E1",
     "U+20E2", "U+20E3", "U+20E4", "U+20E5", "U+20E6", "U+20E7", "U+20E8", "U+20E9", "U+20EA", "U+20EB",
     "U+20EC", "U+20ED", "U+20EE", "U+20EF", "U+20F0", "U+2C7C", "U+2C7D", "U+2CEF", "U+2CF0", "U+2CF1",
     "U+2D6F", "U+2D7F", "U+2DE0", "U+2DE1", "U+2DE2", "U+2DE3", "U+2DE4", "U+2DE5", "U+2DE6", "U+2DE7",
     "U+2DE8", "U+2DE9", "U+2DEA", "U+2DEB", "U+2DEC", "U+2DED", "U+2DEE", "U+2DEF", "U+2DF0", "U+2DF1",
     "U+2DF2", "U+2DF3", "U+2DF4", "U+2DF5", "U+2DF6", "U+2DF7", "U+2DF8", "U+2DF9", "U+2DFA", "U+2DFB",
     "U+2DFC", "U+2DFD", "U+2DFE", "U+2DFF", "U+2E2F", "U+3005", "U+302A", "U+302B", "U+302C", "U+302D",
     "U+3031", "U+3032", "U+3033", "U+3034", "U+3035", "U+303B", "U+3099", "U+309A", "U+309B", "U+309C",
     "U+309D", "U+309E", "U+30FC", "U+30FD", "U+30FE", "U+A015", "U+A4F8", "U+A4F9", "U+A4FA", "U+A4FB",
     "U+A4FC", "U+A4FD", "U+A60C", "U+A66F", "U+A670", "U+A671", "U+A672", "U+A674", "U+A675", "U+A676",
     "U+A677", "U+A678", "U+A679", "U+A67A", "U+A67B", "U+A67C", "U+A67D", "U+A67F", "U+A69C", "U+A69D",
     "U+A69E", "U+A69F", "U+A6F0", "U+A6F1", "U+A700", "U+A701", "U+A702", "U+A703", "U+A704", "U+A705",
     "U+A706", "U+A707", "U+A708", "U+A709", "U+A70A", "U+A70B", "U+A70C", "U+A70D", "U+A70E", "U+A70F",
     "U+A710", "U+A711", "U+A712", "U+A713", "U+A714", "U+A715", "U+A716", "U+A717", "U+A718", "U+A719",
     "U+A71A", "U+A71B", "U+A71C", "U+A71D", "U+A71E", "U+A71F", "U+A720", "U+A721", "U+A770", "U+A788",
     "U+A789", "U+A78A", "U+A7F1", "U+A7F2", "U+A7F3", "U+A7F4", "U+A7F8", "U+A7F9", "U+A802", "U+A806",
     "U+A80B", "U+A825", "U+A826", "U+A82C", "U+A8C4", "U+A8C5", "U+A8E0", "U+A8E1", "U+A8E2", "U+A8E3",
     "U+A8E4", "U+A8E5", "U+A8E6", "U+A8E7", "U+A8E8", "U+A8E9", "U+A8EA", "U+A8EB", "U+A8EC", "U+A8ED",
     "U+A8EE", "U+A8EF", "U+A8F0", "U+A8F1", "U+A8FF", "U+A926", "U+A927", "U+A928", "U+A929", "U+A92A",
     "U+A92B", "U+A92C", "U+A92D", "U+A947", "U+A948", "U+A949", "U+A94A", "U+A94B", "U+A94C", "U+A94D",
     "U+A94E", "U+A94F", "U+A950", "U+A951", "U+A980", "U+A981", "U+A982", "U+A9B3", "U+A9B6", "U+A9B7",
     "U+A9B8", "U+A9B9", "U+A9BC", "U+A9BD", "U+A9CF", "U+A9E5", "U+A9E6", "U+AA29", "U+AA2A", "U+AA2B",
     "U+AA2C", "U+AA2D", "U+AA2E", "U+AA31", "U+AA32", "U+AA35", "U+AA36", "U+AA43", "U+AA4C", "U+AA70",
     "U+AA7C", "U+AAB0", "U+AAB2", "U+AAB3", "U+AAB4", "U+AAB7", "U+AAB8", "U+AABE", "U+AABF", "U+AAC1",
     "U+AADD", "U+AAEC", "U+AAED", "U+AAF3", "U+AAF4", "U+AAF6", "U+AB5B", "U+AB5C", "U+AB5D", "U+AB5E",
     "U+AB5F", "U+AB69", "U+AB6A", "U+AB6B", "U+ABE5", "U+ABE8", "U+ABED", "U+FB1E", "U+FBB2", "U+FBB3",
     "U+FBB4", "U+FBB5", "U+FBB6", "U+FBB7", "U+FBB8", "U+FBB9", "U+FBBA", "U+FBBB", "U+FBBC", "U+FBBD",
     "U+FBBE", "U+FBBF", "U+FBC0", "U+FBC1", "U+FBC2", "U+FE00", "U+FE01", "U+FE02", "U+FE03", "U+FE04",
     "U+FE05", "U+FE06", "U+FE07", "U+FE08", "U+FE09", "U+FE0A", "U+FE0B", "U+FE0C", "U+FE0D", "U+FE0E",
     "U+FE0F", "U+FE13", "U+FE20", "U+FE21", "U+FE22", "U+FE23", "U+FE24", "U+FE25", "U+FE26", "U+FE27",
     "U+FE28", "U+FE29", "U+FE2A", "U+FE2B", "U+FE2C", "U+FE2D", "U+FE2E", "U+FE2F", "U+FE52", "U+FE55",
     "U+FEFF", "U+FF07", "U+FF0E", "U+FF1A", "U+FF3E", "U+FF40", "U+FF70", "U+FF9E", "U+FF9F", "U+FFE3",
     "U+FFF9", "U+FFFA", "U+FFFB", "U+101FD", "U+102E0", "U+10376", "U+10377", "U+10378", "U+10379", "U+1037A",
     "U+10780", "U+10781", "U+10782", "U+10783", "U+10784", "U+10785", "U+10787", "U+10788", "U+10789", "U+1078A",
     "U+1078B", "U+1078C", "U+1078D", "U+1078E", "U+1078F", "U+10790", "U+10791", "U+10792", "U+10793", "U+10794",
     "U+10795", "U+10796", "U+10797", "U+10798", "U+10799", "U+1079A", "U+1079B", "U+1079C", "U+1079D", "U+1079E",
     "U+1079F", "U+107A0", "U+107A1", "U+107A2", "U+107A3", "U+107A4", "U+107A5", "U+107A6", "U+107A7", "U+107A8",
     "U+107A9", "U+107AA", "U+107AB", "U+107AC", "U+107AD", "U+107AE", "U+107AF", "U+107B0", "U+107B2", "U+107B3",
     "U+107B4", "U+107B5", "U+107B6", "U+107B7", "U+107B8", "U+107B9", "U+107BA", "U+10A01", "U+10A02", "U+10A03",
     "U+10A05", "U+10A06", "U+10A0C", "U+10A0D", "U+10A0E", "U+10A0F", "U+10A38", "U+10A39", "U+10A3A", "U+10A3F",
     "U+10AE5", "U+10AE6", "U+10D24", "U+10D25", "U+10D26", "U+10D27", "U+10D4E", "U+10D69", "U+10D6A", "U+10D6B",
     "U+10D6C", "U+10D6D", "U+10D6F", "U+10EAB", "U+10EAC", "U+10EC5", "U+10EFA", "U+10EFB", "U+10EFC", "U+10EFD",
     "U+10EFE", "U+10EFF", "U+10F46", "U+10F47", "U+10F48", "U+10F49", "U+10F4A", "U+10F4B", "U+10F4C", "U+10F4D",
     "U+10F4E", "U+10F4F", "U+10F50", "U+10F82", "U+10F83", "U+10F84", "U+10F85", "U+11001", "U+11038", "U+11039",
     "U+1103A", "U+1103B", "U+1103C", "U+1103D", "U+1103E", "U+1103F", "U+11040", "U+11041", "U+11042", "U+11043",
     "U+11044", "U+11045", "U+11046", "U+11070", "U+11073", "U+11074", "U+1107F", "U+11080", "U+11081", "U+110B3",
     "U+110B4", "U+110B5", "U+110B6", "U+110B9", "U+110BA", "U+110BD", "U+110C2", "U+110CD", "U+11100", "U+11101",
     "U+11102", "U+11127", "U+11128", "U+11129", "U+1112A", "U+1112B", "U+1112D", "U+1112E", "U+1112F", "U+11130",
     "U+11131", "U+11132", "U+11133", "U+11134", "U+11173", "U+11180", "U+11181", "U+111B6", "U+111B7", "U+111B8",
     "U+111B9", "U+111BA", "U+111BB", "U+111BC", "U+111BD", "U+111BE", "U+111C9", "U+111CA", "U+111CB", "U+111CC",
     "U+111CF", "U+1122F", "U+11230", "U+11231", "U+11234", "U+11236", "U+11237", "U+1123E", "U+11241", "U+112DF",
     "U+112E3", "U+112E4", "U+112E5", "U+112E6", "U+112E7", "U+112E8", "U+112E9", "U+112EA", "U+11300", "U+11301",
     "U+1133B", "U+1133C", "U+11340", "U+11366", "U+11367", "U+11368", "U+11369", "U+1136A", "U+1136B", "U+1136C",
     "U+11370", "U+11371", "U+11372", "U+11373", "U+11374", "U+113BB", "U+113BC", "U+113BD", "U+113BE", "U+113BF",
     "U+113C0", "U+113CE", "U+113D0", "U+113D2", "U+113E1", "U+113E2", "U+11438", "U+11439", "U+1143A", "U+1143B",
     "U+1143C", "U+1143D", "U+1143E", "U+1143F", "U+11442", "U+11443", "U+11444", "U+11446", "U+1145E", "U+114B3",
     "U+114B4", "U+114B5", "U+114B6", "U+114B7", "U+114B8", "U+114BA", "U+114BF", "U+114C0", "U+114C2", "U+114C3",
     "U+115B2", "U+115B3", "U+115B4", "U+115B5", "U+115BC", "U+115BD", "U+115BF", "U+115C0", "U+115DC", "U+115DD",
     "U+11633", "U+11634", "U+11635", "U+11636", "U+11637", "U+11638", "U+11639", "U+1163A", "U+1163D", "U+1163F",
     "U+11640", "U+116AB", "U+116AD", "U+116B0", "U+116B1", "U+116B2", "U+116B3", "U+116B4", "U+116B5", "U+116B7",
     "U+1171D", "U+1171F", "U+11722", "U+11723", "U+11724", "U+11725", "U+11727", "U+11728", "U+11729", "U+1172A",
     "U+1172B", "U+1182F", "U+11830", "U+11831", "U+11832", "U+11833", "U+11834", "U+11835", "U+11836", "U+11837",
     "U+11839", "U+1183A", "U+1193B", "U+1193C", "U+1193E", "U+11943", "U+119D4", "U+119D5", "U+119D6", "U+119D7",
     "U+119DA", "U+119DB", "U+119E0", "U+11A01", "U+11A02", "U+11A03", "U+11A04", "U+11A05", "U+11A06", "U+11A07",
     "U+11A08", "U+11A09", "U+11A0A", "U+11A33", "U+11A34", "U+11A35", "U+11A36", "U+11A37", "U+11A38", "U+11A3B",
     "U+11A3C", "U+11A3D", "U+11A3E", "U+11A47", "U+11A51", "U+11A52", "U+11A53", "U+11A54", "U+11A55", "U+11A56",
     "U+11A59", "U+11A5A", "U+11A5B", "U+11A8A", "U+11A8B", "U+11A8C", "U+11A8D", "U+11A8E", "U+11A8F", "U+11A90",
     "U+11A91", "U+11A92", "U+11A93", "U+11A94", "U+11A95", "U+11A96", "U+11A98", "U+11A99", "U+11B60", "U+11B62",
     "U+11B63", "U+11B64", "U+11B66", "U+11C30", "U+11C31", "U+11C32", "U+11C33", "U+11C34", "U+11C35", "U+11C36",
     "U+11C38", "U+11C39", "U+11C3A", "U+11C3B", "U+11C3C", "U+11C3D", "U+11C3F", "U+11C92", "U+11C93", "U+11C94",
     "U+11C95", "U+11C96", "U+11C97", "U+11C98", "U+11C99", "U+11C9A", "U+11C9B", "U+11C9C", "U+11C9D", "U+11C9E",
     "U+11C9F", "U+11CA0", "U+11CA1", "U+11CA2", "U+11CA3", "U+11CA4", "U+11CA5", "U+11CA6", "U+11CA7", "U+11CAA",
     "U+11CAB", "U+11CAC", "U+11CAD", "U+11CAE", "U+11CAF", "U+11CB0", "U+11CB2", "U+11CB3", "U+11CB5", "U+11CB6",
     "U+11D31", "U+11D32", "U+11D33", "U+11D34", "U+11D35", "U+11D36", "U+11D3A", "U+11D3C", "U+11D3D", "U+11D3F",
     "U+11D40", "U+11D41", "U+11D42", "U+11D43", "U+11D44", "U+11D45", "U+11D47", "U+11D90", "U+11D91", "U+11D95",
     "U+11D97", "U+11DD9", "U+11EF3", "U+11EF4", "U+11F00", "U+11F01", "U+11F36", "U+11F37", "U+11F38", "U+11F39",
     "U+11F3A", "U+11F40", "U+11F42", "U+11F5A", "U+13430", "U+13431", "U+13432", "U+13433", "U+13434", "U+13435",
     "U+13436", "U+13437", "U+13438", "U+13439", "U+1343A", "U+1343B", "U+1343C", "U+1343D", "U+1343E", "U+1343F",
     "U+13440", "U+13447", "U+13448", "U+13449", "U+1344A", "U+1344B", "U+1344C", "U+1344D", "U+1344E", "U+1344F",
     "U+13450", "U+13451", "U+13452", "U+13453", "U+13454", "U+13455", "U+1611E", "U+1611F", "U+16120", "U+16121",
     "U+16122", "U+16123", "U+16124", "U+16125", "U+16126", "U+16127", "U+16128", "U+16129", "U+1612D", "U+1612E",
     "U+1612F", "U+16AF0", "U+16AF1", "U+16AF2", "U+16AF3", "U+16AF4", "U+16B30", "U+16B31", "U+16B32", "U+16B33",
     "U+16B34", "U+16B35", "U+16B36", "U+16B40", "U+16B41", "U+16B42", "U+16B43", "U+16D40", "U+16D41", "U+16D42",
     "U+16D6B", "U+16D6C", "U+16F4F", "U+16F8F", "U+16F90", "U+16F91", "U+16F92", "U+16F93", "U+16F94", "U+16F95",
     "U+16F96", "U+16F97", "U+16F98", "U+16F99", "U+16F9A", "U+16F9B", "U+16F9C", "U+16F9D", "U+16F9E", "U+16F9F",
     "U+16FE0", "U+16FE1", "U+16FE3", "U+16FE4", "U+16FF2", "U+16FF3", "U+1AFF0", "U+1AFF1", "U+1AFF2", "U+1AFF3",
     "U+1AFF5", "U+1AFF6", "U+1AFF7", "U+1AFF8", "U+1AFF9", "U+1AFFA", "U+1AFFB", "U+1AFFD", "U+1AFFE", "U+1BC9D",
     "U+1BC9E", "U+1BCA0", "U+1BCA1", "U+1BCA2", "U+1BCA3", "U+1CF00", "U+1CF01", "U+1CF02", "U+1CF03", "U+1CF04",
     "U+1CF05", "U+1CF06", "U+1CF07", "U+1CF08", "U+1CF09", "U+1CF0A", "U+1CF0B", "U+1CF0C", "U+1CF0D", "U+1CF0E",
     "U+1CF0F", "U+1CF10", "U+1CF11", "U+1CF12", "U+1CF13", "U+1CF14", "U+1CF15", "U+1CF16", "U+1CF17", "U+1CF18",
     "U+1CF19", "U+1CF1A", "U+1CF1B", "U+1CF1C", "U+1CF1D", "U+1CF1E", "U+1CF1F", "U+1CF20", "U+1CF21", "U+1CF22",
     "U+1CF23", "U+1CF24", "U+1CF25", "U+1CF26", "U+1CF27", "U+1CF28", "U+1CF29", "U+1CF2A", "U+1CF2B", "U+1CF2C",
     "U+1CF2D", "U+1CF30", "U+1CF31", "U+1CF32", "U+1CF33", "U+1CF34", "U+1CF35", "U+1CF36", "U+1CF37", "U+1CF38",
     "U+1CF39", "U+1CF3A", "U+1CF3B", "U+1CF3C", "U+1CF3D", "U+1CF3E", "U+1CF3F", "U+1CF40", "U+1CF41", "U+1CF42",
     "U+1CF43", "U+1CF44", "U+1CF45", "U+1CF46", "U+1D167", "U+1D168", "U+1D169", "U+1D173", "U+1D174", "U+1D175",
     "U+1D176", "U+1D177", "U+1D178", "U+1D179", "U+1D17A", "U+1D17B", "U+1D17C", "U+1D17D", "U+1D17E", "U+1D17F",
     "U+1D180", "U+1D181", "U+1D182", "U+1D185", "U+1D186", "U+1D187", "U+1D188", "U+1D189", "U+1D18A", "U+1D18B",
     "U+1D1AA", "U+1D1AB", "U+1D1AC", "U+1D1AD", "U+1D242", "U+1D243", "U+1D244", "U+1DA00", "U+1DA01", "U+1DA02",
     "U+1DA03", "U+1DA04", "U+1DA05", "U+1DA06", "U+1DA07", "U+1DA08", "U+1DA09", "U+1DA0A", "U+1DA0B", "U+1DA0C",
     "U+1DA0D", "U+1DA0E", "U+1DA0F", "U+1DA10", "U+1DA11", "U+1DA12", "U+1DA13", "U+1DA14", "U+1DA15", "U+1DA16",
     "U+1DA17", "U+1DA18", "U+1DA19", "U+1DA1A", "U+1DA1B", "U+1DA1C", "U+1DA1D", "U+1DA1E", "U+1DA1F", "U+1DA20",
     "U+1DA21", "U+1DA22", "U+1DA23", "U+1DA24", "U+1DA25", "U+1DA26", "U+1DA27", "U+1DA28", "U+1DA29", "U+1DA2A",
     "U+1DA2B", "U+1DA2C", "U+1DA2D", "U+1DA2E", "U+1DA2F", "U+1DA30", "U+1DA31", "U+1DA32", "U+1DA33", "U+1DA34",
     "U+1DA35", "U+1DA36", "U+1DA3B", "U+1DA3C", "U+1DA3D", "U+1DA3E", "U+1DA3F", "U+1DA40", "U+1DA41", "U+1DA42",
     "U+1DA43", "U+1DA44", "U+1DA45", "U+1DA46", "U+1DA47", "U+1DA48", "U+1DA49", "U+1DA4A", "U+1DA4B", "U+1DA4C",
     "U+1DA4D", "U+1DA4E", "U+1DA4F", "U+1DA50", "U+1DA51", "U+1DA52", "U+1DA53", "U+1DA54", "U+1DA55", "U+1DA56",
     "U+1DA57", "U+1DA58", "U+1DA59", "U+1DA5A", "U+1DA5B", "U+1DA5C", "U+1DA5D", "U+1DA5E", "U+1DA5F", "U+1DA60",
     "U+1DA61", "U+1DA62", "U+1DA63", "U+1DA64", "U+1DA65", "U+1DA66", "U+1DA67", "U+1DA68", "U+1DA69", "U+1DA6A",
     "U+1DA6B", "U+1DA6C", "U+1DA75", "U+1DA84", "U+1DA9B", "U+1DA9C", "U+1DA9D", "U+1DA9E", "U+1DA9F", "U+1DAA1",
     "U+1DAA2", "U+1DAA3", "U+1DAA4", "U+1DAA5", "U+1DAA6", "U+1DAA7", "U+1DAA8", "U+1DAA9", "U+1DAAA", "U+1DAAB",
     "U+1DAAC", "U+1DAAD", "U+1DAAE", "U+1DAAF", "U+1E000", "U+1E001", "U+1E002", "U+1E003", "U+1E004", "U+1E005",
     "U+1E006", "U+1E008", "U+1E009", "U+1E00A", "U+1E00B", "U+1E00C", "U+1E00D", "U+1E00E", "U+1E00F", "U+1E010",
     "U+1E011", "U+1E012", "U+1E013", "U+1E014", "U+1E015", "U+1E016", "U+1E017", "U+1E018", "U+1E01B", "U+1E01C",
     "U+1E01D", "U+1E01E", "U+1E01F", "U+1E020", "U+1E021", "U+1E023", "U+1E024", "U+1E026", "U+1E027", "U+1E028",
     "U+1E029", "U+1E02A", "U+1E030", "U+1E031", "U+1E032", "U+1E033", "U+1E034", "U+1E035", "U+1E036", "U+1E037",
     "U+1E038", "U+1E039", "U+1E03A", "U+1E03B", "U+1E03C", "U+1E03D", "U+1E03E", "U+1E03F", "U+1E040", "U+1E041",
     "U+1E042", "U+1E043", "U+1E044", "U+1E045", "U+1E046", "U+1E047", "U+1E048", "U+1E049", "U+1E04A", "U+1E04B",
     "U+1E04C", "U+1E04D", "U+1E04E", "U+1E04F", "U+1E050", "U+1E051", "U+1E052", "U+1E053", "U+1E054", "U+1E055",
     "U+1E056", "U+1E057", "U+1E058", "U+1E059", "U+1E05A", "U+1E05B", "U+1E05C", "U+1E05D", "U+1E05E", "U+1E05F",
     "U+1E060", "U+1E061", "U+1E062", "U+1E063", "U+1E064", "U+1E065", "U+1E066", "U+1E067", "U+1E068", "U+1E069",
     "U+1E06A", "U+1E06B", "U+1E06C", "U+1E06D", "U+1E08F", "U+1E130", "U+1E131", "U+1E132", "U+1E133", "U+1E134",
     "U+1E135", "U+1E136", "U+1E137", "U+1E138", "U+1E139", "U+1E13A", "U+1E13B", "U+1E13C", "U+1E13D", "U+1E2AE",
     "U+1E2EC", "U+1E2ED", "U+1E2EE", "U+1E2EF", "U+1E4EB", "U+1E4EC", "U+1E4ED", "U+1E4EE", "U+1E4EF", "U+1E5EE",
     "U+1E5EF", "U+1E6E3", "U+1E6E6", "U+1E6EE", "U+1E6EF", "U+1E6F5", "U+1E6FF", "U+1E8D0", "U+1E8D1", "U+1E8D2",
     "U+1E8D3", "U+1E8D4", "U+1E8D5", "U+1E8D6", "U+1E944", "U+1E945", "U+1E946", "U+1E947", "U+1E948", "U+1E949",
     "U+1E94A", "U+1E94B", "U+1F3FB", "U+1F3FC", "U+1F3FD", "U+1F3FE", "U+1F3FF", "U+E0001", "U+E0020", "U+E0021",
     "U+E0022", "U+E0023", "U+E0024", "U+E0025", "U+E0026", "U+E0027", "U+E0028", "U+E0029", "U+E002A", "U+E002B",
     "U+E002C", "U+E002D", "U+E002E", "U+E002F", "U+E0030", "U+E0031", "U+E0032", "U+E0033", "U+E0034", "U+E0035",
     "U+E0036", "U+E0037", "U+E0038", "U+E0039", "U+E003A", "U+E003B", "U+E003C", "U+E003D", "U+E003E", "U+E003F",
     "U+E0040", "U+E0041", "U+E0042", "U+E0043", "U+E0044", "U+E0045", "U+E0046", "U+E0047", "U+E0048", "U+E0049",
     "U+E004A", "U+E004B", "U+E004C", "U+E004D", "U+E004E", "U+E004F", "U+E0050", "U+E0051", "U+E0052", "U+E0053",
     "U+E0054", "U+E0055", "U+E0056", "U+E0057", "U+E0058", "U+E0059", "U+E005A", "U+E005B", "U+E005C", "U+E005D",
     "U+E005E", "U+E005F", "U+E0060", "U+E0061", "U+E0062", "U+E0063", "U+E0064", "U+E0065", "U+E0066", "U+E0067",
     "U+E0068", "U+E0069", "U+E006A", "U+E006B", "U+E006C", "U+E006D", "U+E006E", "U+E006F", "U+E0070", "U+E0071",
     "U+E0072", "U+E0073", "U+E0074", "U+E0075", "U+E0076", "U+E0077", "U+E0078", "U+E0079", "U+E007A", "U+E007B",
     "U+E007C", "U+E007D", "U+E007E", "U+E007F", "U+E0100", "U+E0101", "U+E0102", "U+E0103", "U+E0104", "U+E0105",
     "U+E0106", "U+E0107", "U+E0108", "U+E0109", "U+E010A", "U+E010B", "U+E010C", "U+E010D", "U+E010E", "U+E010F",
     "U+E0110", "U+E0111", "U+E0112", "U+E0113", "U+E0114", "U+E0115", "U+E0116", "U+E0117", "U+E0118", "U+E0119",
     "U+E011A", "U+E011B", "U+E011C", "U+E011D", "U+E011E", "U+E011F", "U+E0120", "U+E0121", "U+E0122", "U+E0123",
     "U+E0124", "U+E0125", "U+E0126", "U+E0127", "U+E0128", "U+E0129", "U+E012A", "U+E012B", "U+E012C", "U+E012D",
     "U+E012E", "U+E012F", "U+E0130", "U+E0131", "U+E0132", "U+E0133", "U+E0134", "U+E0135", "U+E0136", "U+E0137",
     "U+E0138", "U+E0139", "U+E013A", "U+E013B", "U+E013C", "U+E013D", "U+E013E", "U+E013F", "U+E0140", "U+E0141",
     "U+E0142", "U+E0143", "U+E0144", "U+E0145", "U+E0146", "U+E0147", "U+E0148", "U+E0149", "U+E014A", "U+E014B",
     "U+E014C", "U+E014D", "U+E014E", "U+E014F", "U+E0150", "U+E0151", "U+E0152", "U+E0153", "U+E0154", "U+E0155",
     "U+E0156", "U+E0157", "U+E0158", "U+E0159", "U+E015A", "U+E015B", "U+E015C", "U+E015D", "U+E015E", "U+E015F",
     "U+E0160", "U+E0161", "U+E0162", "U+E0163", "U+E0164", "U+E0165", "U+E0166", "U+E0167", "U+E0168", "U+E0169",
     "U+E016A", "U+E016B", "U+E016C", "U+E016D", "U+E016E", "U+E016F", "U+E0170", "U+E0171", "U+E0172", "U+E0173",
     "U+E0174", "U+E0175", "U+E0176", "U+E0177", "U+E0178", "U+E0179", "U+E017A", "U+E017B", "U+E017C", "U+E017D",
     "U+E017E", "U+E017F", "U+E0180", "U+E0181", "U+E0182", "U+E0183", "U+E0184", "U+E0185", "U+E0186", "U+E0187",
     "U+E0188", "U+E0189", "U+E018A", "U+E018B", "U+E018C", "U+E018D", "U+E018E", "U+E018F", "U+E0190", "U+E0191",
     "U+E0192", "U+E0193", "U+E0194", "U+E0195", "U+E0196", "U+E0197", "U+E0198", "U+E0199", "U+E019A", "U+E019B",
     "U+E019C", "U+E019D", "U+E019E", "U+E019F", "U+E01A0", "U+E01A1", "U+E01A2", "U+E01A3", "U+E01A4", "U+E01A5",
     "U+E01A6", "U+E01A7", "U+E01A8", "U+E01A9", "U+E01AA", "U+E01AB", "U+E01AC", "U+E01AD", "U+E01AE", "U+E01AF",
     "U+E01B0", "U+E01B1", "U+E01B2", "U+E01B3", "U+E01B4", "U+E01B5", "U+E01B6", "U+E01B7", "U+E01B8", "U+E01B9",
     "U+E01BA", "U+E01BB", "U+E01BC", "U+E01BD", "U+E01BE", "U+E01BF", "U+E01C0", "U+E01C1", "U+E01C2", "U+E01C3",
     "U+E01C4", "U+E01C5", "U+E01C6", "U+E01C7", "U+E01C8", "U+E01C9", "U+E01CA", "U+E01CB", "U+E01CC", "U+E01CD",
     "U+E01CE", "U+E01CF", "U+E01D0", "U+E01D1", "U+E01D2", "U+E01D3", "U+E01D4", "U+E01D5", "U+E01D6", "U+E01D7",
     "U+E01D8", "U+E01D9", "U+E01DA", "U+E01DB", "U+E01DC", "U+E01DD", "U+E01DE", "U+E01DF", "U+E01E0", "U+E01E1",
     "U+E01E2", "U+E01E3", "U+E01E4", "U+E01E5", "U+E01E6", "U+E01E7", "U+E01E8", "U+E01E9", "U+E01EA", "U+E01EB",
     "U+E01EC", "U+E01ED", "U+E01EE", "U+E01EF"}

UnicodeUpperSet == {UnicodeUpper[i] : i \in 1..Len(UnicodeUpper)}
UnicodeLowerSet == {UnicodeLower[i] : i \in 1..Len(UnicodeLower)}

\* core::unicode::Cased, for the characters that are not Case_Ignorable: the
\* characters of the case tables and CasedOther
IsCased(c) ==
    \/ \E i \in 1..26 : UpperLetters[i] = c \/ LowerLetters[i] = c
    \/ c \in {"U+0130", "U+03A3", "U+03C3"}
    \/ c \in UnicodeUpperSet
    \/ c \in UnicodeLowerSet
    \/ c \in CasedOther

\* char::to_lowercase
LowerChar(c) ==
    IF \E i \in 1..26 : UpperLetters[i] = c THEN <<AsciiLowerChar(c)>>
    ELSE IF c = "U+0130" THEN <<"i", "U+0307">>
    ELSE IF c = "U+03A3" THEN <<"U+03C3">>
    ELSE IF c \in UnicodeUpperSet
    THEN <<UnicodeLower[CHOOSE i \in 1..Len(UnicodeUpper) : UnicodeUpper[i] = c]>>
    ELSE <<c>>

RECURSIVE SkipCaseIgnorable(_)
SkipCaseIgnorable(s) ==
    IF s # <<>> /\ Head(s) \in CaseIgnorable THEN SkipCaseIgnorable(Tail(s)) ELSE s

\* the first character after the Case_Ignorable ones is there and is Cased
case_ignorable_then_cased(s) ==
    LET r == SkipCaseIgnorable(s) IN r # <<>> /\ IsCased(Head(r))

Reverse(s) == [i \in 1..Len(s) |-> s[Len(s) + 1 - i]]

\* the capital sigma at position i of from: the final small sigma when a cased
\* letter comes before it and none after it, the small sigma otherwise
map_uppercase_sigma(from, i) ==
    IF /\ case_ignorable_then_cased(Reverse(Take(from, i - 1)))
       /\ ~case_ignorable_then_cased(Drop(from, i))
    THEN "U+03C2" ELSE "U+03C3"

RECURSIVE LowerFrom(_, _)
LowerFrom(s, i) ==
    IF i > Len(s) THEN <<>>
    ELSE (IF s[i] = "U+03A3" THEN <<map_uppercase_sigma(s, i)>> ELSE LowerChar(s[i]))
             \o LowerFrom(s, i + 1)

\* str::to_lowercase
ToLower(s) == LowerFrom(s, 1)

DigitChars == <<"0", "1", "2", "3", "4", "5", "6", "7", "8", "9">>
IsDigit(c) == \E i \in 1..10 : DigitChars[i] = c
DigitVal(c) == (CHOOSE i \in 1..10 : DigitChars[i] = c) - 1

RECURSIVE DigitsValue(_, _)
DigitsValue(s, acc) ==
    IF s = <<>> THEN acc ELSE DigitsValue(Tail(s), acc * 10 + DigitVal(Head(s)))

\* number of leading ASCII digits among the first max characters
\* the number of elements before the first of the positions in stop, of lim
\* elements in all
CountBefore(stop, lim) ==
    IF stop = {} THEN lim ELSE (CHOOSE i \in stop : \A j \in stop : i <= j) - 1

LeadingDigits(s, max) ==
    CountBefore({i \in 1..Len(s) : i <= max /\ ~IsDigit(s[i])}, IF Len(s) < max THEN Len(s) ELSE max)

-----------------------------------------------------------------------------
(* Integer parsing: <u8 / u32 as FromStr>::from_str *)

\* without the leading zeros
StripZeros(s) == Drop(s, CountBefore({i \in 1..Len(s) : s[i] # "0"}, Len(s)))

\* lexicographic a > b for digit strings of equal length
RECURSIVE DigitsGreater(_, _)
DigitsGreater(a, b) ==
    IF a = <<>> THEN FALSE
    ELSE IF DigitVal(Head(a)) # DigitVal(Head(b)) THEN DigitVal(Head(a)) > DigitVal(Head(b))
    ELSE DigitsGreater(Tail(a), Tail(b))

U8MaxDigits == <<"2", "5", "5">>
U16MaxDigits == <<"6", "5", "5", "3", "5">>
U32MaxDigits == <<"4", "2", "9", "4", "9", "6", "7", "2", "9", "5">>

\* Unsigned from_str: an optional '+', then one or more ASCII digits, no
\* overflow past the type's maximum (given by its decimal digits).
ParseUnsigned(s, maxDigits) ==
    LET body == IF s # <<>> /\ Head(s) = "+" THEN Tail(s) ELSE s
        sig == StripZeros(body)
    IN  IF body = <<>> \/ \E i \in 1..Len(body) : ~IsDigit(body[i]) THEN None
        ELSE IF Len(sig) > Len(maxDigits) THEN None
        ELSE IF Len(sig) = Len(maxDigits) /\ DigitsGreater(sig, maxDigits) THEN None
        ELSE Some(DigitsValue(sig, 0))

ParseU32(s) == ParseUnsigned(s, U32MaxDigits)
ParseU16(s) == ParseUnsigned(s, U16MaxDigits)
ParseU8(s) == ParseUnsigned(s, U8MaxDigits)

\* i16 from_str: an optional '+' or '-', then digits, within -32768..32767
ParseI16(s) ==
    LET neg == s # <<>> /\ Head(s) = "-"
        body == IF s # <<>> /\ Head(s) \in {"+", "-"} THEN Tail(s) ELSE s
        sig == StripZeros(body)
    IN  IF body = <<>> \/ \E i \in 1..Len(body) : ~IsDigit(body[i]) THEN None
        ELSE IF Len(sig) > 5 THEN None
        ELSE IF DigitsValue(sig, 0) > (IF neg THEN 32768 ELSE 32767) THEN None
        ELSE Some(IF neg THEN 0 - DigitsValue(sig, 0) ELSE DigitsValue(sig, 0))

\* An f32.  A finite value is (-1)^neg * m * 2^e with m odd and below 2^24
\* and e at least -149; zero is m = 0, e = 0 and keeps its sign.  The other
\* values are the two infinities and NaN.
RECURSIVE F32(_, _, _)
F32(neg, m, e) ==
    IF m = 0 THEN [kind |-> "finite", neg |-> neg, m |-> 0, e |-> 0]
    ELSE IF m % 2 = 0 THEN F32(neg, m \div 2, e + 1)
    ELSE [kind |-> "finite", neg |-> neg, m |-> m, e |-> e]

F32Inf(neg) == [kind |-> "inf", neg |-> neg, m |-> 0, e |-> 0]
F32NaN == [kind |-> "nan", neg |-> FALSE, m |-> 0, e |-> 0]
F32Zero == F32(FALSE, 0, 0)

\* Decimal numerals of any length, as the sequence of their digits from the
\* most significant one: without leading zeros, twice, half (rounded down),
\* the value of a short one, and the comparison with a number below 10^8
BigStrip(d) == Drop(d, CountBefore({i \in 1..Len(d) : d[i] # 0}, Len(d)))

\* twice a numeral: a digit takes a carry when the digit after it is 5 or more
BigDouble(d) ==
    (IF d # <<>> /\ d[1] >= 5 THEN <<1>> ELSE <<>>)
        \o [i \in 1..Len(d) |-> (2 * d[i] + (IF i < Len(d) /\ d[i + 1] >= 5 THEN 1 ELSE 0)) % 10]

\* half a numeral: a digit takes ten from an odd digit before it
BigHalf(d) ==
    BigStrip([i \in 1..Len(d) |-> ((IF i > 1 /\ d[i - 1] % 2 = 1 THEN 10 ELSE 0) + d[i]) \div 2])

\* sixteen doublings and sixteen halvings
BigDouble4(d) == BigDouble(BigDouble(BigDouble(BigDouble(d))))
BigDouble16(d) == BigDouble4(BigDouble4(BigDouble4(BigDouble4(d))))
BigHalf4(d) == BigHalf(BigHalf(BigHalf(BigHalf(d))))
BigHalf16(d) == BigHalf4(BigHalf4(BigHalf4(BigHalf4(d))))

RECURSIVE BigValue(_, _)
BigValue(d, acc) == IF d = <<>> THEN acc ELSE BigValue(Tail(d), 10 * acc + Head(d))

BigAtLeast(d, v) == Len(d) >= 9 \/ BigValue(d, 0) >= v

\* The numeral num with its last n digits after the point: the whole part,
\* and whether anything but zeros follows the point
WholePart(num, n) == BigStrip(IF Len(num) > n THEN Take(num, Len(num) - n) ELSE <<>>)
FractionNonZero(num, n) == \E i \in 1..Len(num) : i > Len(num) - n /\ num[i] # 0

\* num / 10^n, doubled until its whole part has 25 bits or the binary
\* exponent k reaches the one below the smallest subnormal's; sixteen
\* doublings are made at once where all sixteen are due
RECURSIVE ScaleUp(_, _, _)
ScaleUp(num, n, k) ==
    IF k = -150 \/ BigAtLeast(WholePart(num, n), 16777216) THEN [num |-> num, k |-> k]
    ELSE IF k >= -134 /\ ~BigAtLeast(WholePart(BigHalf(BigDouble16(num)), n), 16777216)
    THEN ScaleUp(BigDouble16(num), n, k - 16)
    ELSE ScaleUp(BigDouble(num), n, k - 1)

\* the whole part halved until it has 25 bits; sticky holds whether a one was
\* dropped; sixteen halvings are made at once where all sixteen are due
RECURSIVE ScaleDown(_, _, _)
ScaleDown(whole, sticky, k) ==
    IF ~BigAtLeast(whole, 33554432) THEN [whole |-> BigValue(whole, 0), sticky |-> sticky, k |-> k]
    ELSE IF BigAtLeast(BigDouble(BigHalf16(whole)), 33554432)
    THEN ScaleDown(BigHalf16(whole), sticky \/ BigDouble16(BigHalf16(whole)) # whole, k + 16)
    ELSE ScaleDown(BigHalf(whole), sticky \/ whole[Len(whole)] % 2 = 1, k + 1)

\* the scaled value cut to 24 bits, the 25th and the sticky bit deciding:
\* to the nearest, ties to the even significand, an infinity above the
\* largest finite f32
RoundHalfEven(neg, half, odd, sticky, e) ==
    IF e >= 105 \/ (e = 104 /\ half = 16777215 /\ odd)
    THEN F32Inf(neg)
    ELSE F32(neg, IF odd /\ (sticky \/ half % 2 = 1) THEN half + 1 ELSE half, e)

RoundScaled(neg, r) == RoundHalfEven(neg, r.whole \div 2, r.whole % 2 = 1, r.sticky, r.k + 1)

ScaleDownFrom(up, n) == ScaleDown(WholePart(up.num, n), FractionNonZero(up.num, n), up.k)

\* the number of zeros at the end of a numeral
TrailingZeros(d) == Len(d) - Len(BigStrip([i \in 1..Len(d) |-> d[Len(d) + 1 - i]]))

\* The f32 nearest to d * 10^exp10 for a numeral d without zeros at either
\* end: zero below half the smallest subnormal, an infinity above the
\* largest finite f32
NearestSignificant(neg, d, exp10) ==
    IF d = <<>> THEN F32(neg, 0, 0)
    ELSE IF Len(d) + exp10 >= 40 THEN F32Inf(neg)
    ELSE IF Len(d) + exp10 <= -46 THEN F32(neg, 0, 0)
    ELSE IF exp10 > 0 THEN RoundScaled(neg, ScaleDownFrom(ScaleUp(d \o [i \in 1..exp10 |-> 0], 0, 0), 0))
    ELSE RoundScaled(neg, ScaleDownFrom(ScaleUp(d, 0 - exp10, 0), 0 - exp10))

NearestStripped(neg, lead, exp) ==
    NearestSignificant(neg, Take(lead, Len(lead) - TrailingZeros(lead)), exp + TrailingZeros(lead))

\* The f32 nearest to digits * 10^exp, ties to the even significand
NearestF32(neg, digits, exp) == NearestStripped(neg, BigStrip(digits), exp)

\* dec2flt parse_scientific: the digits of the exponent are taken in while
\* the value is below 0x10000, the later ones are dropped
RECURSIVE ExponentValue(_, _)
ExponentValue(digits, acc) ==
    IF digits = <<>> THEN acc
    ELSE ExponentValue(Tail(digits), IF acc < 65536 THEN 10 * acc + DigitVal(Head(digits)) ELSE acc)

\* f32 from_str: [+-] then inf | infinity | nan in any case, or digits with
\* an optional point (one digit at least) and an optional exponent; the value
\* is the f32 nearest to the decimal
ParseF32(s) ==
    LET neg == s # <<>> /\ Head(s) = "-"
        body == IF s # <<>> /\ Head(s) \in {"+", "-"} THEN Tail(s) ELSE s
        epos == IF \E i \in 1..Len(body) : body[i] \in {"e", "E"}
                THEN CHOOSE i \in 1..Len(body) :
                         body[i] \in {"e", "E"} /\ \A j \in 1..(i - 1) : body[j] \notin {"e", "E"}
                ELSE 0
        mant == IF epos = 0 THEN body ELSE Take(body, epos - 1)
        expo == IF epos = 0 THEN <<>> ELSE Drop(body, epos)
        nint == LeadingDigits(mant, Len(mant))
        afterInt == Drop(mant, nint)
        frac == IF afterInt # <<>> /\ Head(afterInt) = "." THEN Tail(afterInt) ELSE <<>>
        mantOk == /\ afterInt = <<>> \/ Head(afterInt) = "."
                  /\ \A i \in 1..Len(frac) : IsDigit(frac[i])
                  /\ nint + Len(frac) >= 1
        eneg == expo # <<>> /\ Head(expo) = "-"
        edigits == IF expo # <<>> /\ Head(expo) \in {"+", "-"} THEN Tail(expo) ELSE expo
        expOk == epos = 0 \/ (edigits # <<>> /\ \A i \in 1..Len(edigits) : IsDigit(edigits[i]))
        emag == ExponentValue(edigits, 0)
        e == IF epos = 0 THEN 0 ELSE IF eneg THEN 0 - emag ELSE emag
        written == Take(mant, nint) \o frac
        digits == [i \in 1..Len(written) |-> DigitVal(written[i])]
    IN  IF ToAsciiLower(body) \in {<<"i", "n", "f">>, <<"i", "n", "f", "i", "n", "i", "t", "y">>}
        THEN Some(F32Inf(neg))
        ELSE IF ToAsciiLower(body) = <<"n", "a", "n">> THEN Some(F32NaN)
        ELSE IF mantOk /\ expOk THEN Some(NearestF32(neg, digits, e - Len(frac)))
        ELSE None

\* num * 2^e for a num below 100 * 2^24, doubled until the quotient by 100
\* has 24 bits or e is the exponent of the subnormals
RECURSIVE Div100Scale(_, _)
Div100Scale(num, e) ==
    IF num >= 838860800 \/ e = -149 THEN [num |-> num, e |-> e]
    ELSE Div100Scale(2 * num, e - 1)

\* v / 100.0: the f32 nearest to the quotient, ties to the even significand
Div100(v) ==
    LET s == Div100Scale(v.m, v.e)
        q == s.num \div 100
        r == s.num % 100
    IN  IF v.kind # "finite" \/ v.m = 0 THEN v
        ELSE F32(v.neg, IF 2 * r > 100 \/ (2 * r = 100 /\ q % 2 = 1) THEN q + 1 ELSE q, s.e)

-----------------------------------------------------------------------------
(* chrono: format items, scan::number, parse_internal, Parsed::to_naive_*  *)

Lit(s) == [t |-> "lit", v |-> s]
Space == [t |-> "space", v |-> <<>>]
Num(f) == [t |-> "num", v |-> f]
Fix(f) == [t |-> "fix", v |-> f]

\* "%a, %B %e, %Y" and "%a, %b %e, %Y" as StrftimeItems yields them
MATCH_DATE_FORMAT ==
    <<Fix("a"), Lit(<<",">>), Space, Fix("B"), Space, Num("e"), Lit(<<",">>), Space, Num("Y")>>
MATCH_DATE_FORMAT_ALT ==
    <<Fix("a"), Lit(<<",">>), Space, Fix("b"), Space, Num("e"), Lit(<<",">>), Space, Num("Y")>>
\* "%I:%M %p"
MATCH_TIME_FORMAT ==
    <<Num("I"), Lit(<<":">>), Num("M"), Space, Fix("p")>>

Unset == -1

\* chrono::format::Parsed, with the text still to be consumed
NewParsed(s) ==
    [ok |-> TRUE, rest |-> s, weekday |-> Unset, month |-> Unset, day |-> Unset,
     year |-> Unset, hasYear |-> FALSE, hour12 |-> Unset, minute |-> Unset, pm |-> Unset,
     second |-> Unset]

Bad(p) == [p EXCEPT !.ok = FALSE]

\* scan::number(s, min, max): at least min and at most max digits
ScanNumber(s, min, max) ==
    LET n == LeadingDigits(s, max)
    IN  IF Len(s) < min \/ n < min THEN [ok |-> FALSE, rest |-> s, val |-> 0]
        ELSE [ok |-> TRUE, rest |-> Drop(s, n), val |-> DigitsValue(Take(s, n), 0)]

ShortMonths ==
    <<<<"j", "a", "n">>, <<"f", "e", "b">>, <<"m", "a", "r">>, <<"a", "p", "r">>,
      <<"m", "a", "y">>, <<"j", "u", "n">>, <<"j", "u", "l">>, <<"a", "u", "g">>,
      <<"s", "e", "p">>, <<"o", "c", "t">>, <<"n", "o", "v">>, <<"d", "e", "c">>>>
LongMonthSuffixes ==
    <<<<"u", "a", "r", "y">>, <<"r", "u", "a", "r", "y">>, <<"c", "h">>, <<"i", "l">>,
      <<>>, <<"e">>, <<"y">>, <<"u", "s", "t">>, <<"t", "e", "m", "b", "e", "r">>,
      <<"o", "b", "e", "r">>, <<"e", "m", "b", "e", "r">>, <<"e", "m", "b", "e", "r">>>>
\* index 0 is Sunday
ShortWeekdays ==
    <<<<"s", "u", "n">>, <<"m", "o", "n">>, <<"t", "u", "e">>, <<"w", "e", "d">>,
      <<"t", "h", "u">>, <<"f", "r", "i">>, <<"s", "a", "t">>>>

\* scan::short_month0 / scan::short_weekday: the first three bytes, any case
ScanName3(s, names) ==
    IF Len(s) >= 3 /\ \E i \in 1..Len(names) : names[i] = ToAsciiLower(Take(s, 3))
    THEN [ok |-> TRUE, rest |-> Drop(s, 3),
          val |-> CHOOSE i \in 1..Len(names) : names[i] = ToAsciiLower(Take(s, 3))]
    ELSE [ok |-> FALSE, rest |-> s, val |-> 0]

\* scan::short_or_long_month0: the long name's suffix is consumed when present
ScanShortOrLongMonth(s) ==
    LET r == ScanName3(s, ShortMonths)
        suffix == LongMonthSuffixes[r.val]
    IN  IF ~r.ok THEN r
        ELSE IF Len(r.rest) >= Len(suffix)
                /\ EqIgnoreAsciiCase(Take(r.rest, Len(suffix)), suffix)
        THEN [r EXCEPT !.rest = Drop(r.rest, Len(suffix))]
        ELSE r

\* Item::Numeric: leading whitespace skipped, then the number (a sign only
\* for the year), then the Parsed setter with its range check
ParseNumeric(p, f) ==
    LET s == TrimStart(p.rest)
        signed == f = "Y"
        neg == signed /\ s # <<>> /\ Head(s) = "-"
        pos == signed /\ s # <<>> /\ Head(s) = "+"
        width == IF f = "Y" THEN 4 ELSE 2
        r == IF neg \/ pos THEN ScanNumber(Tail(s), 1, Len(s)) ELSE ScanNumber(s, 1, width)
        v == IF neg THEN 0 - r.val ELSE r.val
        q == [p EXCEPT !.rest = r.rest]
    IN  IF ~r.ok THEN Bad(p)
        ELSE CASE f = "Y" -> [q EXCEPT !.year = v, !.hasYear = TRUE]
               [] f = "m" -> IF v \in 1..12 THEN [q EXCEPT !.month = v] ELSE Bad(p)
               [] f \in {"e", "d"} -> IF v \in 1..31 THEN [q EXCEPT !.day = v] ELSE Bad(p)
               [] f = "I" -> IF v \in 1..12 THEN [q EXCEPT !.hour12 = v % 12] ELSE Bad(p)
               [] f = "H" -> IF v \in 0..23
                             THEN [q EXCEPT !.hour12 = v % 12, !.pm = v \div 12] ELSE Bad(p)
               [] f = "M" -> IF v \in 0..59 THEN [q EXCEPT !.minute = v] ELSE Bad(p)
               [] f = "S" -> IF v \in 0..60 THEN [q EXCEPT !.second = v] ELSE Bad(p)

\* Item::Fixed: weekday and month names, AM/PM
ParseFixed(p, f) ==
    LET s == p.rest
    IN  CASE f = "a" ->
               LET r == ScanName3(s, ShortWeekdays)
               IN  IF r.ok THEN [p EXCEPT !.rest = r.rest, !.weekday = r.val - 1] ELSE Bad(p)
          [] f = "b" ->
               LET r == ScanName3(s, ShortMonths)
               IN  IF r.ok THEN [p EXCEPT !.rest = r.rest, !.month = r.val] ELSE Bad(p)
          [] f = "B" ->
               LET r == ScanShortOrLongMonth(s)
               IN  IF r.ok THEN [p EXCEPT !.rest = r.rest, !.month = r.val] ELSE Bad(p)
          [] f = "p" ->
               IF Len(s) < 2 THEN Bad(p)
               ELSE IF ToAsciiLower(Take(s, 2)) = <<"a", "m">>
                    THEN [p EXCEPT !.rest = Drop(s, 2), !.pm = 0]
               ELSE IF ToAsciiLower(Take(s, 2)) = <<"p", "m">>
                    THEN [p EXCEPT !.rest = Drop(s, 2), !.pm = 1]
               ELSE Bad(p)

ParseItem(p, item) ==
    CASE item.t = "lit" ->
           IF StartsWith(p.rest, item.v) THEN [p EXCEPT !.rest = Drop(p.rest, Len(item.v))]
           ELSE Bad(p)
      [] item.t = "space" -> [p EXCEPT !.rest = TrimStart(p.rest)]
      [] item.t = "num" -> ParseNumeric(p, item.v)
      [] item.t = "fix" -> ParseFixed(p, item.v)

\* format::parse: every item in turn, and nothing may be left over
RECURSIVE ParseItems(_, _)
ParseItems(p, items) ==
    IF ~p.ok THEN p
    ELSE IF items = <<>> THEN (IF p.rest = <<>> THEN p ELSE Bad(p))
    ELSE ParseItems(ParseItem(p, Head(items)), Tail(items))

IsLeap(y) == (y % 4 = 0 /\ y % 100 # 0) \/ y % 400 = 0

DaysInMonth(y, m) ==
    IF m = 2 THEN (IF IsLeap(y) THEN 29 ELSE 28)
    ELSE IF m \in {4, 6, 9, 11} THEN 30 ELSE 31

MonthOffsets == <<0, 3, 2, 5, 0, 3, 5, 1, 4, 6, 2, 4>>

\* NaiveDate::weekday, 0 is Sunday
WeekdayOf(y, m, d) ==
    LET yy == IF m < 3 THEN y - 1 ELSE y
    IN  (yy + (yy \div 4) - (yy \div 100) + (yy \div 400) + MonthOffsets[m] + d) % 7

MinYear == -262143
MaxYear == 262142

\* Parsed::to_naive_date: year, month and day are needed, the date must
\* exist and a parsed weekday must agree with it
ToNaiveDate(p) ==
    IF ~p.ok \/ ~p.hasYear \/ p.month = Unset \/ p.day = Unset THEN None
    ELSE IF p.year < MinYear \/ p.year > MaxYear THEN None
    ELSE IF p.day > DaysInMonth(p.year, p.month) THEN None
    ELSE IF p.weekday # Unset /\ p.weekday # WeekdayOf(p.year, p.month, p.day) THEN None
    ELSE Some([year |-> p.year, month |-> p.month, day |-> p.day])

\* Parsed::to_naive_time: hour (12-hour clock and AM/PM) and minute are
\* needed, a missing second is 0 (second 60 is the leap second 59 + 1 s)
ToNaiveTime(p) ==
    IF ~p.ok \/ p.hour12 = Unset \/ p.pm = Unset \/ p.minute = Unset THEN None
    ELSE Some([hour |-> p.pm * 12 + p.hour12, minute |-> p.minute,
               second |-> IF p.second = Unset THEN 0 ELSE p.second])

\* NaiveDate / NaiveTime / NaiveDateTime::parse_from_str
NaiveDateParse(s, fmt) == ToNaiveDate(ParseItems(NewParsed(s), fmt))
NaiveTimeParse(s, fmt) == ToNaiveTime(ParseItems(NewParsed(s), fmt))
NaiveDateTimeParse(s, fmt) ==
    LET p == ParseItems(NewParsed(s), fmt)
    IN  IF IsSome(ToNaiveDate(p)) /\ IsSome(ToNaiveTime(p))
        THEN Some([date |-> Unwrap(ToNaiveDate(p)), time |-> Unwrap(ToNaiveTime(p))])
        ELSE None

\* NaiveDate::and_time
AndTime(d, t) == [date |-> d, time |-> t]

-----------------------------------------------------------------------------
(* scraper/mod.rs: select_text *)

\* The element is an Option of its text nodes (None: the selector matches
\* nothing).  The first text node that is not blank, trimmed, without
\* newlines and tabs; "" when there is none.
RECURSIVE FirstNonBlank(_)
FirstNonBlank(texts) ==
    IF texts = <<>> THEN None
    ELSE IF Trim(Head(texts)) # <<>> THEN Some(Trim(Head(texts)))
    ELSE FirstNonBlank(Tail(texts))

select_text(el) ==
    LET found == IF IsSome(el) THEN FirstNonBlank(Unwrap(el)) ELSE None
    IN  RemoveNlTab(Trim(IF IsSome(found) THEN Unwrap(found) ELSE <<>>))

BASE_URL == <<"h", "t", "t", "p", "s", ":", "/", "/", "w", "w", "w", ".", "v", "l", "r", ".", "g", "g">>

-----------------------------------------------------------------------------
(* scraper/matchlist.rs: parse_matches, parse_match_item, parse_team *)

\* div.wf-label.mod-large: its text nodes
Label(texts) == [kind |-> "label", texts |-> texts]
\* a.match-item: the href attribute, the div.match-item-time element, the
\* div.match-item-vs-team elements, the text nodes of each div.wf-tag and of
\* each div.match-item-event, and the div.match-item-event-series element
Item(href, time, teams, tags, event, series) ==
    [kind |-> "item", href |-> href, time |-> time, teams |-> teams,
     tags |-> tags, event |-> event, series |-> series]
\* div.match-item-vs-team: the mod-winner class and the score element
TeamEl(winner, name, score) == [winner |-> winner, name |-> name, score |-> score]

\* filter_map(|t| t.text().last()).map(|t| t.trim()): the trimmed last text
\* node of every element that has one
RECURSIVE LastTexts(_)
LastTexts(els) ==
    IF els = <<>> THEN <<>>
    ELSE IF Head(els) = <<>> THEN LastTexts(Tail(els))
    ELSE <<Trim(Head(els)[Len(Head(els))])>> \o LastTexts(Tail(els))

parse_team(team) ==
    [name |-> select_text(team.name),
     is_winner |-> team.winner,
     score |-> ParseU8(select_text(team.score))]

parse_teams(teams) == [i \in 1..Len(teams) |-> parse_team(teams[i])]

\* The (id, slug) pair of an href "/<id>/<slug>", ("", "") otherwise
MatchHrefIdSlug(href) ==
    LET stripped == StripPrefix(href, <<"/">>)
        tuple == IF IsSome(stripped) THEN CollectTuple2(Split(Unwrap(stripped), "/")) ELSE None
    IN  IF IsSome(tuple) THEN Unwrap(tuple) ELSE <<<<>>, <<>>>>

\* parse_match_item with the time propagated as an error when it does not parse
parse_match_item_time_required(element, date) ==
    LET href == IF IsSome(element.href) THEN Unwrap(element.href) ELSE <<>>
        idSlug == MatchHrefIdSlug(href)
        time == NaiveTimeParse(select_text(element.time), MATCH_TIME_FORMAT)
        id == ParseU32(idSlug[1])
    IN  IF ~IsSome(time) THEN Err("DateParse")
        ELSE IF IsSome(id)
        THEN Ok([id |-> Unwrap(id), slug |-> idSlug[2], href |-> BASE_URL \o href,
                 date_time |-> IF IsSome(date) THEN Some(AndTime(Unwrap(date), Unwrap(time)))
                               ELSE None,
                 teams |-> parse_teams(element.teams),
                 tags |-> LastTexts(element.tags),
                 event_text |-> IF LastTexts(element.event) = <<>> THEN <<>>
                                ELSE LastTexts(element.event)[Len(LastTexts(element.event))],
                 event_series_text |-> select_text(element.series)])
        ELSE Err("IntParse")

parse_match_item(element, date) ==
    LET href == IF IsSome(element.href) THEN Unwrap(element.href) ELSE <<>>
        idSlug == MatchHrefIdSlug(href)
        time == NaiveTimeParse(select_text(element.time), MATCH_TIME_FORMAT)
        date_time == IF IsSome(date) /\ IsSome(time)
                     THEN Some(AndTime(Unwrap(date), Unwrap(time))) ELSE None
        id == ParseU32(idSlug[1])
    IN  IF IsSome(id)
        THEN Ok([id |-> Unwrap(id), slug |-> idSlug[2], href |-> BASE_URL \o href,
                 date_time |-> date_time, teams |-> parse_teams(element.teams),
                 tags |-> LastTexts(element.tags),
                 event_text |-> IF LastTexts(element.event) = <<>> THEN <<>>
                                ELSE LastTexts(element.event)[Len(LastTexts(element.event))],
                 event_series_text |-> select_text(element.series)])
        ELSE Err("IntParse")

\* The date of a label's first text node: the primary format, or else the
\* alternate one
ParseLabelDate(raw) ==
    LET first == NaiveDateParse(raw, MATCH_DATE_FORMAT)
    IN  IF IsSome(first) THEN first ELSE NaiveDateParse(raw, MATCH_DATE_FORMAT_ALT)

\* ml_i is 0 while parse_matches is not called
MLRunning == ml_ret = None /\ ml_i >= 1 /\ ml_i <= Len(ml_doc)

\* MLLabel with a label whose date does not parse skipped instead of reported
MLLabelSkippingBadDates ==
    /\ MLRunning
    /\ ml_doc[ml_i].kind = "label"
    /\ LET texts == ml_doc[ml_i].texts
           date == ParseLabelDate(Trim(texts[1]))
       IN  last_date' = IF texts # <<>> /\ IsSome(date) THEN Some(Unwrap(date)) ELSE last_date
    /\ ml_i' = ml_i + 1
    /\ UNCHANGED <<ml_doc, matches, ml_ret>>
    /\ UNCHANGED mlOthers

\* the loop body for a date label
MLLabel ==
    /\ MLRunning
    /\ ml_doc[ml_i].kind = "label"
    /\ LET texts == ml_doc[ml_i].texts
           date == ParseLabelDate(Trim(texts[1]))
       IN  IF texts = <<>>
           THEN /\ ml_i' = ml_i + 1
                /\ UNCHANGED <<last_date, ml_ret>>
           ELSE IF IsSome(date)
           THEN /\ last_date' = Some(Unwrap(date))
                /\ ml_i' = ml_i + 1
                /\ UNCHANGED ml_ret
           ELSE /\ ml_ret' = Some(Err("DateParse"))
                /\ UNCHANGED <<last_date, ml_i>>
    /\ UNCHANGED <<ml_doc, matches>>
    /\ UNCHANGED mlOthers

\* MLItem with an item dropped while there is no current date
MLItemAfterDateOnly ==
    /\ MLRunning
    /\ ml_doc[ml_i].kind = "item"
    /\ LET r == parse_match_item(ml_doc[ml_i], last_date)
       IN  matches' = IF r.ok /\ IsSome(last_date) THEN Append(matches, r.val) ELSE matches
    /\ ml_i' = ml_i + 1
    /\ UNCHANGED <<ml_doc, last_date, ml_ret>>
    /\ UNCHANGED mlOthers

\* the loop body for a match item
MLItem ==
    /\ MLRunning
    /\ ml_doc[ml_i].kind = "item"
    /\ LET r == parse_match_item(ml_doc[ml_i], last_date)
       IN  matches' = IF r.ok THEN Append(matches, r.val) ELSE matches
    /\ ml_i' = ml_i + 1
    /\ UNCHANGED <<ml_doc, last_date, ml_ret>>
    /\ UNCHANGED mlOthers

\* the end of the loop: Ok(matches)
MLReturn ==
    /\ ml_ret = None
    /\ ml_i >= 1
    /\ ml_i > Len(ml_doc)
    /\ ml_ret' = Some(Ok(matches))
    /\ UNCHANGED <<ml_doc, ml_i, last_date, matches>>
    /\ UNCHANGED mlOthers

MaxElems == 3

LabelSamples ==
    { Label(<<<<"S", "a", "t", ",", " ", "J", "a", "n", " ", "4", ",", " ", "2", "0", "2", "5">>>>),
      Label(<<<<"\r", "\n", "\t", "S", "u", "n", ",", "U+00A0", "J", "a", "n", "u", "a", "r", "y", " ", "5", ",", " ", "2", "0", "2", "5", " ", "\n">>, <<"T", "o", "d", "a", "y">>>>),
      Label(<<<<"T", "o", "d", "a", "y">>>>),
      Label(<<<<"M", "o", "n", ",", " ", "J", "a", "n", " ", "4", ",", " ", "2", "0", "2", "5">>>>),
      Label(<<>>) }

TwoTeams ==
    <<TeamEl(TRUE, Some(<<<<"K", "R", "U">>>>), Some(<<<<"2">>>>)),
      TeamEl(FALSE, Some(<<<<"G", "2">>>>), Some(<<<<"1">>>>))>>

ItemTags == <<<<<<"\n">>, <<" ", "V", "O", "D", " ">>>>, <<>>>>
ItemEvent == <<<<<<"\n", "\t", "P", "l", "a", "y", "o", "f", "f", "s", ":", " ", "G", "r", "a", "n", "d", " ", "F", "i", "n", "a", "l">>, <<"\n", "\t", "C", "h", "a", "m", "p", "i", "o", "n", "s", " ", "2", "0", "2", "5", "\n">>>>>>
ItemSeries == Some(<<<<"\n", "\t", "P", "l", "a", "y", "o", "f", "f", "s", ":", " ", "G", "r", "a", "n", "d", " ", "F", "i", "n", "a", "l">>>>)

ItemSamples ==
    { Item(Some(<<"/", "1", "0", "1", "/", "k", "r", "u", "-", "v", "s", "-", "g", "2">>), Some(<<<<"3", ":", "0", "0", " ", "P", "M">>>>), TwoTeams, ItemTags, ItemEvent, ItemSeries),
      Item(Some(<<"/", "1", "0", "2", "/", "a", "-", "v", "s", "-", "b">>), Some(<<<<"T", "B", "D">>>>), TwoTeams, ItemTags, ItemEvent, ItemSeries),
      Item(Some(<<"/", "1", "0", "3", "/", "t", "b", "d">>), None, <<>>, <<>>, <<>>, None),
      Item(Some(<<"/", "a", "b", "c", "/", "x">>), Some(<<<<"3", ":", "0", "0", " ", "P", "M">>>>), TwoTeams, ItemTags, ItemEvent, ItemSeries),
      Item(None, Some(<<<<"\n", "1", "1", ":", "3", "0", " ", "a", "m", "\t">>>>), TwoTeams, ItemTags, ItemEvent, ItemSeries) }

RECURSIVE SeqsUpTo(_, _)
SeqsUpTo(S, n) ==
    IF n = 0 THEN {<<>>}
    ELSE LET shorter == SeqsUpTo(S, n - 1)
         IN  shorter \cup {Append(s, x) : s \in shorter, x \in S}

MLInit ==
    /\ ml_doc \in SeqsUpTo(LabelSamples \cup ItemSamples, MaxElems)
    /\ ml_i = 1
    /\ last_date = None
    /\ matches = <<>>
    /\ ml_ret = None

\* no parse_matches call in progress
MLIdle ==
    /\ ml_doc = <<>>
    /\ ml_i = 0
    /\ last_date = None
    /\ matches = <<>>
    /\ ml_ret = None

-----------------------------------------------------------------------------
(* scraper/events.rs: parse_events, parse_event; model/event.rs: EventStatus *)

\* normalize_img_url with the test of one slash made first
normalize_img_url_slash_first(src) ==
    IF StartsWith(src, <<"/">>) THEN BASE_URL \o src
    ELSE IF StartsWith(src, <<"/", "/">>) THEN <<"h", "t", "t", "p", "s", ":">> \o src
    ELSE src

\* scraper/mod.rs: a src that may be relative, as an absolute URL
normalize_img_url(src) ==
    IF StartsWith(src, <<"/", "/">>) THEN <<"h", "t", "t", "p", "s", ":">> \o src
    ELSE IF StartsWith(src, <<"/">>) THEN BASE_URL \o src
    ELSE src

\* utils.rs: the same with the origin written out
parse_img_link(s) ==
    IF StartsWith(s, <<"/", "/">>) THEN <<"h", "t", "t", "p", "s", ":">> \o s
    ELSE IF StartsWith(s, <<"/">>)
    THEN <<"h", "t", "t", "p", "s", ":", "/", "/", "w", "w", "w", ".", "v", "l", "r", ".", "g", "g">> \o s
    ELSE s

\* strum EnumString with serialize_all = "lowercase": the three lowercase
\* names are the only strings accepted; Unknown is disabled
EventStatusFromStr(s) ==
    IF s = <<"c", "o", "m", "p", "l", "e", "t", "e", "d">> THEN Ok("Completed")
    ELSE IF s = <<"o", "n", "g", "o", "i", "n", "g">> THEN Ok("Ongoing")
    ELSE IF s = <<"u", "p", "c", "o", "m", "i", "n", "g">> THEN Ok("Upcoming")
    ELSE Err("VariantNotFound")

EventStatusDefault == "Unknown"

\* An a.event-item element: its href attribute, the src of its thumbnail
\* image, the text nodes of its title, status, prize and dates elements and
\* the classes of its location flag (None: the attribute or element is absent)
EventEl(href, icon, title, status, price, dates, flag) ==
    [href |-> href, icon |-> icon, title |-> title, status |-> status,
     price |-> price, dates |-> dates, flag |-> flag]

\* The (id, slug) pair of an href "/event/<id>/<slug>", ("", "") otherwise
EventHrefIdSlug(href) ==
    LET stripped == StripPrefix(href, <<"/", "e", "v", "e", "n", "t", "/">>)
        tuple == IF IsSome(stripped) THEN CollectTuple2(Split(Unwrap(stripped), "/")) ELSE None
    IN  IF IsSome(tuple) THEN Unwrap(tuple) ELSE <<<<>>, <<>>>>

\* the first class that starts with "mod-", without that prefix, trimmed
RECURSIVE FlagRegion(_)
FlagRegion(classes) ==
    IF classes = <<>> THEN <<>>
    ELSE IF StartsWith(Head(classes), <<"m", "o", "d", "-">>)
         THEN Trim(Drop(Head(classes), 4))
         ELSE FlagRegion(Tail(classes))

\* parse_event with an unrecognised status propagated as an error
parse_event_status_required(element) ==
    LET href == IF IsSome(element.href) THEN Unwrap(element.href) ELSE <<>>
        idSlug == EventHrefIdSlug(href)
        status == EventStatusFromStr(select_text(element.status))
        id == ParseU32(idSlug[1])
    IN  IF ~status.ok THEN Err("VariantNotFound")
        ELSE IF IsSome(id)
        THEN Ok([id |-> Unwrap(id),
                 title |-> select_text(element.title),
                 slug |-> idSlug[2],
                 region |-> IF IsSome(element.flag) THEN FlagRegion(Unwrap(element.flag)) ELSE <<>>,
                 href |-> BASE_URL \o href,
                 icon_url |-> IF IsSome(element.icon)
                              THEN normalize_img_url(Unwrap(element.icon)) ELSE <<>>,
                 status |-> status.val,
                 price |-> select_text(element.price),
                 dates |-> select_text(element.dates)])
        ELSE Err("IntParse")

parse_event(element) ==
    LET href == IF IsSome(element.href) THEN Unwrap(element.href) ELSE <<>>
        idSlug == EventHrefIdSlug(href)
        status == EventStatusFromStr(select_text(element.status))
        id == ParseU32(idSlug[1])
    IN  IF IsSome(id)
        THEN Ok([id |-> Unwrap(id),
                 title |-> select_text(element.title),
                 slug |-> idSlug[2],
                 region |-> IF IsSome(element.flag) THEN FlagRegion(Unwrap(element.flag)) ELSE <<>>,
                 href |-> BASE_URL \o href,
                 icon_url |-> IF IsSome(element.icon)
                              THEN normalize_img_url(Unwrap(element.icon)) ELSE <<>>,
                 status |-> IF status.ok THEN status.val ELSE EventStatusDefault,
                 price |-> select_text(element.price),
                 dates |-> select_text(element.dates)])
        ELSE Err("IntParse")

\* ev_i is 0 while parse_events is not called
EVRunning == ev_ret = None /\ ev_i >= 1 /\ ev_i <= Len(ev_doc)

\* filter_map(|el| parse_event(el).ok()) on one selected element
EVItem ==
    /\ EVRunning
    /\ LET r == parse_event(ev_doc[ev_i])
       IN  events' = IF r.ok THEN Append(events, r.val) ELSE events
    /\ ev_i' = ev_i + 1
    /\ UNCHANGED <<ev_doc, ev_ret>>
    /\ UNCHANGED evOthers

\* collect() and Ok(events)
EVReturn ==
    /\ ev_ret = None
    /\ ev_i >= 1
    /\ ev_i > Len(ev_doc)
    /\ ev_ret' = Some(Ok(events))
    /\ UNCHANGED <<ev_doc, ev_i, events>>
    /\ UNCHANGED evOthers

MaxEvents == 3

EvTitle == Some(<<<<"\n", "\t", " ">>, <<"C", "h", "a", "m", "p", "i", "o", "n", "s", " ", "2", "0", "2", "5">>>>)
EvPrice == Some(<<<<"$", "2", ",", "2", "5", "0", ",", "0", "0", "0">>>>)
EvDates == Some(<<<<"S", "e", "p", " ", "1", "2", " ", "-", " ", "O", "c", "t", " ", "5">>>>)
EvFlag == Some(<<<<"f", "l", "a", "g">>, <<"m", "o", "d", "-", "e", "u">>>>)

EventSamples ==
    { EventEl(Some(<<"/", "e", "v", "e", "n", "t", "/", "2", "0", "9", "7", "/", "c", "h", "a", "m", "p", "i", "o", "n", "s">>), Some(<<"/", "/", "o", "w", "c", "d", "n", ".", "n", "e", "t", "/", "i", "m", "g", "/", "a", ".", "p", "n", "g">>), EvTitle, Some(<<<<"o", "n", "g", "o", "i", "n", "g">>>>), EvPrice, EvDates, EvFlag),
      EventEl(Some(<<"/", "e", "v", "e", "n", "t", "/", "2", "2", "8", "3", "/", "m", "a", "s", "t", "e", "r", "s">>), Some(<<"/", "i", "m", "g", "/", "v", "l", "r", "/", "t", "m", "p", "/", "v", "l", "r", ".", "p", "n", "g">>), EvTitle, Some(<<<<"\n", "\t", " ">>, <<"O", "n", "g", "o", "i", "n", "g">>>>), EvPrice, EvDates, EvFlag),
      EventEl(Some(<<"/", "e", "v", "e", "n", "t", "/", "0", "/", "z", "e", "r", "o">>), None, None, Some(<<<<"c", "o", "m", "p", "l", "e", "t", "e", "d">>>>), None, None, None),
      EventEl(Some(<<"/", "e", "v", "e", "n", "t", "/", "a", "b", "c", "/", "x">>), None, EvTitle, Some(<<<<"u", "p", "c", "o", "m", "i", "n", "g">>>>), EvPrice, EvDates, EvFlag),
      EventEl(Some(<<"/", "e", "v", "e", "n", "t", "/", "7", "7", "/", "y">>), Some(<<"h", "t", "t", "p", "s", ":", "/", "/", "x", ".", "y", "/", "z", ".", "p", "n", "g">>), EvTitle, None, EvPrice, EvDates, EvFlag),
      EventEl(None, None, EvTitle, Some(<<<<"c", "o", "m", "p", "l", "e", "t", "e", "d">>>>), EvPrice, EvDates, EvFlag),
      EventEl(Some(<<"/", "e", "v", "e", "n", "t", "/", "1", "2", "/", "a", "/", "b">>), None, EvTitle, Some(<<<<"U", "P", "C", "O", "M", "I", "N", "G">>>>), EvPrice, EvDates, None),
      EventEl(Some(<<"/", "e", "v", "e", "n", "t", "/", "5", "/", "s">>), None, EvTitle, Some(<<<<"l", "i", "v", "e">>>>), None, None, EvFlag) }

\* no parse_events call in progress
EVIdle ==
    /\ ev_doc = <<>>
    /\ ev_i = 0
    /\ events = <<>>
    /\ ev_ret = None

EVInit ==
    /\ ev_doc \in SeqsUpTo(EventSamples, MaxEvents)
    /\ ev_i = 1
    /\ events = <<>>
    /\ ev_ret = None

-----------------------------------------------------------------------------
(* vlr_scraper/matches/detail.rs: parse_header *)

\* unwrap_or_default() of an optional string
OrEmpty(o) == IF IsSome(o) THEN Unwrap(o) ELSE <<>>

\* e.text().next().unwrap_or_default().trim(): the first text node, trimmed
FirstText(texts) == IF texts = <<>> THEN <<>> ELSE Trim(Head(texts))

\* attr("src").map(normalize_img_url).unwrap_or_default()
ImgSrc(src) == IF IsSome(src) THEN normalize_img_url(Unwrap(src)) ELSE <<>>

Min(a, b) == IF a < b THEN a ELSE b

\* filter_map over optional values: the values that are present
RECURSIVE Present(_)
Present(opts) ==
    IF opts = <<>> THEN <<>>
    ELSE IF IsSome(Head(opts)) THEN <<Unwrap(Head(opts))>> \o Present(Tail(opts))
    ELSE Present(Tail(opts))

DATE_TIME_FORMAT ==
    <<Num("Y"), Lit(<<"-">>), Num("m"), Lit(<<"-">>), Num("d"), Space,
      Num("H"), Lit(<<":">>), Num("M"), Lit(<<":">>), Num("S")>>

\* The (id, slug) pair of a team link "/team/<id>/<slug>": the id is 0 when
\* it is not an integer, and the pair is (0, "") when the shape is another
TeamIdSlug(href) ==
    LET tuple == CollectTuple2(Split(OrEmpty(StripPrefix(href, <<"/", "t", "e", "a", "m", "/">>)), "/"))
        pair == UnwrapOr(tuple, <<<<>>, <<>>>>)
    IN  <<UnwrapOr(ParseU32(pair[1]), 0), pair[2]>>

\* The (id, slug) of the event link "/event/<id>/<slug>..."
HeaderEventIdSlug(href) ==
    LET parts == Split(OrEmpty(StripPrefix(href, <<"/", "e", "v", "e", "n", "t", "/">>)), "/")
    IN  <<UnwrapOr(ParseU32(parts[1]), 0), IF Len(parts) >= 2 THEN parts[2] ELSE <<>>>>

\* div.match-header.  event_icon and date are None when the element is
\* absent, and hold the optional attribute otherwise; the sequences hold one
\* entry per selected element
MatchHeaderOf(header, date) ==
    LET patch_raw == select_text(header.patch)
        vs_notes == [i \in 1..Len(header.vs_notes) |-> FirstText(header.vs_notes[i])]
        event == HeaderEventIdSlug(OrEmpty(header.event_href))
        team_links == Present(header.team_links)
        found_scores == [i \in 1..Len(header.team_scores) |->
                            ParseU8(FirstText(header.team_scores[i]))]
        team_scores == IF Len(found_scores) = 2 THEN found_scores ELSE <<None, None>>
        n == Min(Min(Len(team_links), Len(header.team_names)),
                 Min(Len(team_scores), Len(header.team_icons)))
        team(idSlug, i) ==
            [id |-> idSlug[1],
             slug |-> idSlug[2],
             href |-> BASE_URL \o <<"/">> \o OrEmpty(StripPrefix(team_links[i], <<"/">>)),
             name |-> FirstText(header.team_names[i]),
             score |-> team_scores[i],
             icon |-> ImgSrc(header.team_icons[i])]
    IN  [event_icon |-> ImgSrc(Unwrap(header.event_icon)),
         event_title |-> select_text(header.event_title),
         event_series_name |-> select_text(header.event_series),
         event_id |-> event[1],
         event_slug |-> event[2],
         date |-> date,
         patch |-> UnwrapOr(StripPrefix(patch_raw, <<"P", "a", "t", "c", "h", " ">>), patch_raw),
         format |-> IF Len(vs_notes) >= 2 THEN vs_notes[2] ELSE <<>>,
         status |-> IF Len(vs_notes) >= 1 THEN vs_notes[1] ELSE <<>>,
         note |-> select_text(header.note),
         teams |-> [i \in 1..n |-> team(TeamIdSlug(team_links[i]), i)]]

\* parse_header with the date of the epoch when the timestamp element or its
\* attribute is missing or does not parse
parse_header_default_date(header) ==
    IF ~IsSome(header.event_icon)
    THEN Err("ElementNotFound: event icon (match-header-event img)")
    ELSE Ok(MatchHeaderOf(header,
                UnwrapOr(IF IsSome(header.date)
                         THEN NaiveDateTimeParse(OrEmpty(Unwrap(header.date)), DATE_TIME_FORMAT)
                         ELSE None,
                         [date |-> [year |-> 1970, month |-> 1, day |-> 1],
                          time |-> [hour |-> 0, minute |-> 0, second |-> 0]])))

\* the header: the event icon and the timestamp are required
parse_header(header) ==
    IF ~IsSome(header.event_icon)
    THEN Err("ElementNotFound: event icon (match-header-event img)")
    ELSE IF ~IsSome(header.date)
    THEN Err("ElementNotFound: match date element (moment-tz-convert)")
    ELSE Try(OkOr(NaiveDateTimeParse(OrEmpty(Unwrap(header.date)), DATE_TIME_FORMAT),
                  "DateParse"),
             LAMBDA date : Ok(MatchHeaderOf(header, date)))

-----------------------------------------------------------------------------
(* vlr_scraper/matches/detail.rs: parse_player, parse_rounds, parse_game *)

\* whether a class list holds a token
HasClass(classes, c) == \E i \in 1..Len(classes) : classes[i] = c

\* str::replace('+', "")
RECURSIVE RemovePlus(_)
RemovePlus(s) ==
    IF s = <<>> THEN <<>>
    ELSE IF Head(s) = "+" THEN RemovePlus(Tail(s))
    ELSE <<Head(s)>> \o RemovePlus(Tail(s))

\* strip_suffix('%').unwrap_or(s)
WithoutPercent(s) == IF EndsWith(s, <<"%">>) THEN Take(s, Len(s) - 1) ELSE s

\* The (id, slug) pair of a player link "/player/<id>/<slug>": ("", "") when
\* the shape is another
PlayerIdSlug(href) ==
    LET tuple == CollectTuple2(Split(OrEmpty(StripPrefix(href, <<"/", "p", "l", "a", "y", "e", "r", "/">>)), "/"))
    IN  IF IsSome(tuple) THEN Unwrap(tuple) ELSE <<<<>>, <<>>>>

\* and_then(f).map(|v| v / 100.0)
Percent(o) == IF IsSome(o) THEN Some(Div100(Unwrap(o))) ELSE None

\* A tr with a td.mod-player: the title of the flag, the href of the link,
\* the name element, the titles of the agent images and, for each td.mod-stat,
\* the text nodes of its span.side.mod-both (None without such a span)
parse_player(player) ==
    LET idSlug == PlayerIdSlug(OrEmpty(player.href))
        id == ParseU32(idSlug[1])
        agents == Present(player.agents)
        stat_both(i) ==
            IF i <= Len(player.stats) /\ IsSome(player.stats[i]) /\ Unwrap(player.stats[i]) # <<>>
            THEN Some(Trim(Head(Unwrap(player.stats[i])))) ELSE None
        u16(i) == IF IsSome(stat_both(i)) THEN ParseU16(Unwrap(stat_both(i))) ELSE None
        i16(i) == IF IsSome(stat_both(i)) THEN ParseI16(RemovePlus(Unwrap(stat_both(i)))) ELSE None
        f32(i) == IF IsSome(stat_both(i)) THEN ParseF32(Unwrap(stat_both(i))) ELSE None
        pct(i) == IF IsSome(stat_both(i))
                  THEN Percent(ParseF32(WithoutPercent(Unwrap(stat_both(i))))) ELSE None
    IN  [nation |-> Trim(OrEmpty(player.flag_title)),
         id |-> IF IsSome(id) THEN Unwrap(id) ELSE 0,
         slug |-> idSlug[2],
         name |-> select_text(player.name),
         agent |-> IF agents = <<>> THEN <<>> ELSE Head(agents),
         rating |-> f32(1), acs |-> u16(2), kills |-> u16(3), deaths |-> u16(4),
         assists |-> u16(5), kd_diff |-> i16(6), kast |-> pct(7), adr |-> f32(8),
         hs_pct |-> pct(9), first_kills |-> u16(10), first_deaths |-> u16(11),
         fk_diff |-> i16(12)]

\* the position of the first outcome square with the class mod-win, 0 if none
WinningSquare(squares) ==
    IF \E i \in 1..Len(squares) : HasClass(squares[i], "mod-win")
    THEN CHOOSE i \in 1..Len(squares) :
             /\ HasClass(squares[i], "mod-win")
             /\ \A j \in 1..(i - 1) : ~HasClass(squares[j], "mod-win")
    ELSE 0

\* parse_round with the team id 0 when the header has no team at the
\* position of the winning square
parse_round_default_team(header, r) ==
    LET w == WinningSquare(r.squares)
    IN  IF w = 0 THEN None
        ELSE Some([round |-> UnwrapOr(ParseU8(select_text(r.num)), 0),
                   winning_team |-> IF w <= Len(header.teams) THEN header.teams[w].id ELSE 0,
                   winning_site |-> IF HasClass(r.squares[w], "mod-t") THEN "t" ELSE "ct"])

\* parse_round with the last square that won in place of the first
parse_round_last_win(header, r) ==
    LET wins == { i \in 1..Len(r.squares) : HasClass(r.squares[i], "mod-win") }
        w == IF wins = {} THEN 0 ELSE CHOOSE i \in wins : \A j \in wins : j <= i
    IN  IF w # 0 /\ w <= Len(header.teams)
        THEN Some([round |-> UnwrapOr(ParseU8(select_text(r.num)), 0),
                   winning_team |-> header.teams[w].id,
                   winning_site |-> IF HasClass(r.squares[w], "mod-t") THEN "t" ELSE "ct"])
        ELSE None

\* A round column: the div.rnd-num element and the classes of each
\* div.rnd-sq.  It gives a round when a square won and the header has the
\* team at the position of that square.
parse_round(header, r) ==
    LET w == WinningSquare(r.squares)
    IN  IF w # 0 /\ w <= Len(header.teams)
        THEN Some([round |-> UnwrapOr(ParseU8(select_text(r.num)), 0),
                   winning_team |-> header.teams[w].id,
                   winning_site |-> IF HasClass(r.squares[w], "mod-t") THEN "t" ELSE "ct"])
        ELSE None

\* the rounds of the columns, in the order of the columns
parse_rounds(header, rounds) ==
    Present([i \in 1..Len(rounds) |-> parse_round(header, rounds[i])])

\* div.team of the game header: its name, score (None without div.score,
\* else the text nodes and classes), and the two side scores
parse_game_team(team, players) ==
    [name |-> select_text(team.name),
     score |-> ParseU8(select_text(IF IsSome(team.score)
                                   THEN Some(Unwrap(team.score).texts) ELSE None)),
     score_t |-> ParseU8(select_text(team.score_t)),
     score_ct |-> ParseU8(select_text(team.score_ct)),
     is_winner |-> IsSome(team.score) /\ HasClass(Unwrap(team.score).classes, "mod-win"),
     players |-> players]

\* div.vm-stats-game: the map name, the classes of span.picked, the
\* duration, the round columns, the player rows of both tables, the div.team
\* elements of the header
parse_game(header, game) ==
    LET duration == select_text(game.duration)
        players == <<[i \in 1..Len(game.players1) |-> parse_player(game.players1[i])],
                     [i \in 1..Len(game.players2) |-> parse_player(game.players2[i])]>>
    IN  [map |-> select_text(game.map),
         picked_by |->
             IF ~IsSome(game.picked) THEN None
             ELSE IF HasClass(Unwrap(game.picked), "mod-1")
             THEN (IF Len(header.teams) >= 1 THEN Some(header.teams[1].id) ELSE None)
             ELSE IF HasClass(Unwrap(game.picked), "mod-2")
             THEN (IF Len(header.teams) >= 2 THEN Some(header.teams[2].id) ELSE None)
             ELSE None,
         duration |-> IF duration = <<>> THEN None ELSE Some(duration),
         teams |-> [i \in 1..Min(Len(game.teams), 2) |->
                       parse_game_team(game.teams[i], players[i])],
         rounds |-> parse_rounds(header, game.rounds)]

-----------------------------------------------------------------------------
(* vlr_scraper/matches/detail.rs: parse_head_to_head, parse_past_matches,
   parse_match *)

\* href.strip_prefix('/').unwrap_or(href).split_once('/').unwrap_or(("", ""))
MatchIdSlugOnce(href) ==
    LET trimmed == IF StartsWith(href, <<"/">>) THEN Tail(href) ELSE href
        parts == Split(trimmed, "/")
    IN  IF Len(parts) < 2 THEN <<<<>>, <<>>>>
        ELSE <<parts[1], Drop(trimmed, Len(parts[1]) + 1)>>

\* parse_head_to_head_item with a score of 0 in place of a score that is
\* missing or does not parse
parse_head_to_head_item_default_scores(e) ==
    LET idSlug == MatchIdSlugOnce(OrEmpty(e.href))
        id == ParseU32(idSlug[1])
        s1 == IF IsSome(e.rf) THEN ParseU8(FirstText(Unwrap(e.rf).texts)) ELSE None
        s2 == IF IsSome(e.ra) THEN ParseU8(FirstText(Unwrap(e.ra).texts)) ELSE None
    IN  IF IsSome(id)
        THEN Some([match_id |-> Unwrap(id),
                   match_slug |-> idSlug[2],
                   event_name |-> select_text(e.event_name),
                   event_series |-> select_text(e.event_series),
                   event_icon |-> ImgSrc(e.icon),
                   team1_score |-> UnwrapOr(s1, 0),
                   team2_score |-> UnwrapOr(s2, 0),
                   winner_index |-> IF IsSome(e.rf) /\ HasClass(Unwrap(e.rf).classes, "mod-win")
                                    THEN 0 ELSE 1,
                   date |-> select_text(e.date)])
        ELSE None

\* An a.wf-module-item.mod-h2h element: the entry is kept when its id and
\* both scores parse; rf and ra are None without the span, else texts and
\* classes
parse_head_to_head_item(e) ==
    LET idSlug == MatchIdSlugOnce(OrEmpty(e.href))
        id == ParseU32(idSlug[1])
        s1 == IF IsSome(e.rf) THEN ParseU8(FirstText(Unwrap(e.rf).texts)) ELSE None
        s2 == IF IsSome(e.ra) THEN ParseU8(FirstText(Unwrap(e.ra).texts)) ELSE None
    IN  IF IsSome(id) /\ IsSome(s1) /\ IsSome(s2)
        THEN Some([match_id |-> Unwrap(id),
                   match_slug |-> idSlug[2],
                   event_name |-> select_text(e.event_name),
                   event_series |-> select_text(e.event_series),
                   event_icon |-> ImgSrc(e.icon),
                   team1_score |-> Unwrap(s1),
                   team2_score |-> Unwrap(s2),
                   winner_index |-> IF HasClass(Unwrap(e.rf).classes, "mod-win") THEN 0 ELSE 1,
                   date |-> select_text(e.date)])
        ELSE None

\* the entries of the a.wf-module-item.mod-h2h elements, in their order
parse_head_to_head(items) ==
    Present([i \in 1..Len(items) |-> parse_head_to_head_item(items[i])])

\* An a.match-histories-item element: the entry is kept when its id and both
\* scores parse
parse_past_item(e) ==
    LET idSlug == MatchIdSlugOnce(OrEmpty(e.href))
        id == ParseU32(idSlug[1])
        s1 == IF IsSome(e.rf) THEN ParseU8(FirstText(Unwrap(e.rf))) ELSE None
        s2 == IF IsSome(e.ra) THEN ParseU8(FirstText(Unwrap(e.ra))) ELSE None
    IN  IF IsSome(id) /\ IsSome(s1) /\ IsSome(s2)
        THEN Some([match_id |-> Unwrap(id),
                   match_slug |-> idSlug[2],
                   score_for |-> Unwrap(s1),
                   score_against |-> Unwrap(s2),
                   is_win |-> HasClass(e.classes, "mod-win"),
                   opponent_name |-> select_text(e.opponent_name),
                   opponent_logo |-> ImgSrc(e.opponent_logo),
                   date |-> select_text(e.date)])
        ELSE None

\* the a.match-histories-item elements of one div.match-histories card
parse_past_items(items) ==
    Present([i \in 1..Len(items) |-> parse_past_item(items[i])])

\* one TeamPastMatches per card, for the header team of the same position
parse_past_matches(header, cards) ==
    [i \in 1..Len(cards) |->
        [team_id |-> IF i <= Len(header.teams) THEN header.teams[i].id ELSE 0,
         matches |-> parse_past_items(cards[i])]]

\* div.col.mod-3 of the match page: the header element (None when absent),
\* the stream buttons, the vod links, the game sections other than "all",
\* the head-to-head items and the match-history cards
parse_match(id, document) ==
    IF ~IsSome(document.header)
    THEN Err("ElementNotFound: match header (div.match-header)")
    ELSE Try(parse_header(Unwrap(document.header)), LAMBDA header :
             Ok([id |-> id,
                 header |-> header,
                 streams |-> [i \in 1..Len(document.streams) |->
                                [name |-> select_text(document.streams[i].name),
                                 link |-> OrEmpty(document.streams[i].link)]],
                 vods |-> [i \in 1..Len(document.vods) |->
                             [name |-> FirstText(document.vods[i].texts),
                              link |-> OrEmpty(document.vods[i].href)]],
                 games |-> [i \in 1..Len(document.games) |->
                              parse_game(header, document.games[i])],
                 head_to_head |-> parse_head_to_head(document.h2h),
                 past_matches |-> parse_past_matches(header, document.histories),
                 performance |-> None,
                 economy |-> None]))

-----------------------------------------------------------------------------
(* vlr_scraper/matches/detail.rs: build_player_name_map, parse_performance,
   parse_economy *)

\* the concatenation of a sequence of sequences
RECURSIVE Concat(_)
Concat(seqs) == IF seqs = <<>> THEN <<>> ELSE Head(seqs) \o Concat(Tail(seqs))

\* the players of all games, team by team, in the order of the loops
GamePlayers(m) ==
    Concat([g \in 1..Len(m.games) |->
               Concat([t \in 1..Len(m.games[g].teams) |-> m.games[g].teams[t].players])])

\* InsertPlayers with the first player of a name kept
RECURSIVE InsertPlayersOnce(_, _)
InsertPlayersOnce(players, map) ==
    IF players = <<>> THEN map
    ELSE InsertPlayersOnce(Tail(players),
                           IF Head(players).id # 0 /\ Head(players).name # <<>>
                           THEN map @@ (Head(players).name :> Head(players).id)
                           ELSE map)

\* HashMap::insert for each player with an id and a name: a later player
\* replaces an earlier one of the same name
RECURSIVE InsertPlayers(_, _)
InsertPlayers(players, map) ==
    IF players = <<>> THEN map
    ELSE InsertPlayers(Tail(players),
                       IF Head(players).id # 0 /\ Head(players).name # <<>>
                       THEN (Head(players).name :> Head(players).id) @@ map
                       ELSE map)

build_player_name_map(m) == InsertPlayers(GamePlayers(m), <<>>)

\* name_map.get(name).copied().unwrap_or(0)
IdOf(map, name) == IF name \in DOMAIN map THEN map[name] ELSE 0

\* get(i).and_then(|s| s.parse().ok()).unwrap_or(0) on the i-th entry of a
\* list of optional texts
NthOr0(texts, i, parse(_)) ==
    IF i <= Len(texts) /\ IsSome(texts[i]) /\ IsSome(parse(Unwrap(texts[i])))
    THEN Unwrap(parse(Unwrap(texts[i]))) ELSE 0

\* KillRow without the cells that have no victim column
KillRowOfVictims(cells, victim_ids, map) ==
    [c \in 1..Min(Len(cells) - 1, Len(victim_ids)) |->
        LET squares == [i \in 1..Len(cells[c + 1].squares) |->
                           Some(FirstText(cells[c + 1].squares[i]))]
        IN  [killer_id |-> IdOf(map, select_text(cells[1].name)),
             victim_id |-> victim_ids[c],
             kills |-> NthOr0(squares, 1, ParseU16),
             deaths |-> NthOr0(squares, 2, ParseU16)]]

\* the entries of one killer row of the kill matrix
KillRow(cells, victim_ids, map) ==
    [c \in 1..(Len(cells) - 1) |->
        LET squares == [i \in 1..Len(cells[c + 1].squares) |->
                           Some(FirstText(cells[c + 1].squares[i]))]
        IN  [killer_id |-> IdOf(map, select_text(cells[1].name)),
             victim_id |-> IF c <= Len(victim_ids) THEN victim_ids[c] ELSE 0,
             kills |-> NthOr0(squares, 1, ParseU16),
             deaths |-> NthOr0(squares, 2, ParseU16)]]

\* the advanced-stats rows with 14 cells at least and a player name
RECURSIVE AdvRows(_, _)
AdvRows(rows, map) ==
    IF rows = <<>> THEN <<>>
    ELSE LET cells == Head(rows)
             name == select_text(cells[1].name)
             firsts == [i \in 1..Len(cells) |->
                           IF cells[i].texts = <<>> THEN None
                           ELSE Some(Trim(Head(cells[i].texts)))]
         IN  (IF Len(cells) < 14 \/ name = <<>> THEN <<>>
              ELSE <<[player_id |-> IdOf(map, name),
                      player_name |-> name,
                      multi_kills_2k |-> NthOr0(firsts, 3, ParseU8),
                      multi_kills_3k |-> NthOr0(firsts, 4, ParseU8),
                      multi_kills_4k |-> NthOr0(firsts, 5, ParseU8),
                      multi_kills_5k |-> NthOr0(firsts, 6, ParseU8),
                      clutch_1v1 |-> NthOr0(firsts, 7, ParseU8),
                      clutch_1v2 |-> NthOr0(firsts, 8, ParseU8),
                      clutch_1v3 |-> NthOr0(firsts, 9, ParseU8),
                      clutch_1v4 |-> NthOr0(firsts, 10, ParseU8),
                      clutch_1v5 |-> NthOr0(firsts, 11, ParseU8),
                      econ_rating |-> NthOr0(firsts, 12, ParseU16),
                      plants |-> NthOr0(firsts, 13, ParseU8),
                      defuses |-> NthOr0(firsts, 14, ParseU8)]>>)
             \o AdvRows(Tail(rows), map)

\* parse_performance with the kill matrix kept when the advanced-stats table
\* is missing
parse_performance_without_adv(document, m) ==
    LET map == build_player_name_map(m)
        all_game == Unwrap(document.all_game)
        rows == Unwrap(all_game.matrix)
        victim_ids == IF rows = <<>> THEN <<>>
                      ELSE [c \in 1..(Len(Head(rows)) - 1) |->
                               IdOf(map, select_text(Head(rows)[c + 1].name))]
        killers == IF rows = <<>> THEN <<>> ELSE Tail(rows)
    IN  IF ~IsSome(document.all_game)
        THEN Err("ElementNotFound: performance all-game section")
        ELSE IF ~IsSome(all_game.matrix)
        THEN Err("ElementNotFound: kill matrix table (table.mod-normal)")
        ELSE Ok([kill_matrix |->
                     Concat([r \in 1..Len(killers) |->
                                IF killers[r] = <<>> THEN <<>>
                                ELSE KillRow(killers[r], victim_ids, map)]),
                 player_performances |->
                     IF IsSome(all_game.adv) THEN AdvRows(Unwrap(all_game.adv), map)
                     ELSE <<>>])

\* div.col.mod-3 of the performance tab: the section of game "all" (None
\* when absent) with its tables (None when absent) as rows of cells; a cell
\* holds its text nodes, its div.team > div element and its div.stats-sq
parse_performance(document, m) ==
    LET map == build_player_name_map(m)
        all_game == Unwrap(document.all_game)
        rows == Unwrap(all_game.matrix)
        victim_ids == IF rows = <<>> THEN <<>>
                      ELSE [c \in 1..(Len(Head(rows)) - 1) |->
                               IdOf(map, select_text(Head(rows)[c + 1].name))]
        killers == IF rows = <<>> THEN <<>> ELSE Tail(rows)
    IN  IF ~IsSome(document.all_game)
        THEN Err("ElementNotFound: performance all-game section")
        ELSE IF ~IsSome(all_game.matrix)
        THEN Err("ElementNotFound: kill matrix table (table.mod-normal)")
        ELSE IF ~IsSome(all_game.adv)
        THEN Err("ElementNotFound: advanced stats table (table.mod-adv-stats)")
        ELSE Ok([kill_matrix |->
                     Concat([r \in 1..Len(killers) |->
                                IF killers[r] = <<>> THEN <<>>
                                ELSE KillRow(killers[r], victim_ids, map)]),
                 player_performances |-> AdvRows(Unwrap(all_game.adv), map)])

\* parse_rounds_won with the total not trimmed before it is parsed
parse_rounds_won_untrimmed(text) ==
    LET parts == Split(text, "(")
        total == ParseU8(parts[1])
        won_part == Drop(text, Len(parts[1]) + 1)
        won == ParseU8(Trim(TrimEndMatches(won_part, ")")))
    IN  IF Len(parts) < 2 THEN <<0, 0>>
        ELSE <<UnwrapOr(total, 0), UnwrapOr(won, 0)>>

\* "total (won)" -> (total, won); (0, 0) without a parenthesis
parse_rounds_won(text) ==
    LET parts == Split(text, "(")
        total == ParseU8(Trim(parts[1]))
        won_part == Drop(text, Len(parts[1]) + 1)
        won == ParseU8(Trim(TrimEndMatches(won_part, ")")))
    IN  IF Len(parts) < 2 THEN <<0, 0>>
        ELSE <<IF IsSome(total) THEN Unwrap(total) ELSE 0,
               IF IsSome(won) THEN Unwrap(won) ELSE 0>>

\* the text of the first div.stats-sq of a cell, "" without one
SqText(cell) == IF cell.squares = <<>> THEN <<>> ELSE Trim(Concat(Head(cell.squares)))

\* the economy rows with 6 cells at least and a team name
RECURSIVE EconRows(_)
EconRows(rows) ==
    IF rows = <<>> THEN <<>>
    ELSE LET cells == Head(rows)
             team_name == Trim(Concat(cells[1].texts))
             pistol == ParseU8(SqText(cells[2]))
         IN  (IF Len(cells) < 6 \/ team_name = <<>> THEN <<>>
              ELSE <<[team_name |-> team_name,
                      pistol_won |-> IF IsSome(pistol) THEN Unwrap(pistol) ELSE 0,
                      eco_rounds |-> parse_rounds_won(SqText(cells[3]))[1],
                      eco_won |-> parse_rounds_won(SqText(cells[3]))[2],
                      semi_eco_rounds |-> parse_rounds_won(SqText(cells[4]))[1],
                      semi_eco_won |-> parse_rounds_won(SqText(cells[4]))[2],
                      semi_buy_rounds |-> parse_rounds_won(SqText(cells[5]))[1],
                      semi_buy_won |-> parse_rounds_won(SqText(cells[5]))[2],
                      full_buy_rounds |-> parse_rounds_won(SqText(cells[6]))[1],
                      full_buy_won |-> parse_rounds_won(SqText(cells[6]))[2]]>>)
             \o EconRows(Tail(rows))

\* div.col.mod-3 of the economy tab
parse_economy(document) ==
    IF ~IsSome(document.all_game)
    THEN Err("ElementNotFound: economy all-game section")
    ELSE IF ~IsSome(Unwrap(document.all_game).econ)
    THEN Err("ElementNotFound: economy table (table.mod-econ)")
    ELSE Ok([teams |-> EconRows(Unwrap(Unwrap(document.all_game).econ))])

-----------------------------------------------------------------------------
(* Text helpers of the profile parsers *)

\* str::contains
RECURSIVE Contains(_, _)
Contains(s, sub) ==
    IF StartsWith(s, sub) THEN TRUE
    ELSE IF s = <<>> THEN FALSE
    ELSE Contains(Tail(s), sub)

\* str::replace(pat, "") for a pattern that is not empty
RECURSIVE RemoveAll(_, _)
RemoveAll(s, pat) ==
    IF s = <<>> THEN <<>>
    ELSE IF StartsWith(s, pat) THEN RemoveAll(Drop(s, Len(pat)), pat)
    ELSE <<Head(s)>> \o RemoveAll(Tail(s), pat)

\* U+2013, the dash between a stage and a placement
EN_DASH == "EN DASH"

\* str::split_once: the text before and after the first occurrence
SplitOnce(s, c) ==
    LET parts == Split(s, c)
    IN  IF Len(parts) < 2 THEN None
        ELSE Some(<<parts[1], Drop(s, Len(parts[1]) + 1)>>)

\* text().map(|t| t.trim()).filter(|t| !t.is_empty()).join(sep)
RECURSIVE JoinTrimmed(_, _)
JoinTrimmed(texts, sep) ==
    IF texts = <<>> THEN <<>>
    ELSE LET rest == JoinTrimmed(Tail(texts), sep)
         IN  IF Trim(Head(texts)) = <<>> THEN rest
             ELSE IF rest = <<>> THEN Trim(Head(texts))
             ELSE Trim(Head(texts)) \o sep \o rest

cell_text(texts) == JoinTrimmed(texts, <<>>)

\* Some(text) unless the text is empty
NonEmpty(text) == IF text = <<>> THEN None ELSE Some(text)

\* classes().find(|c| c.starts_with("mod-")).map(strip_prefix("mod-")) on the
\* classes of the first i.flag, None without one
RECURSIVE FlagCode(_)
FlagCode(flag) ==
    IF ~IsSome(flag) \/ Unwrap(flag) = <<>> THEN None
    ELSE IF StartsWith(Head(Unwrap(flag)), <<"m", "o", "d", "-">>) THEN Some(Drop(Head(Unwrap(flag)), 4))
    ELSE FlagCode(Some(Tail(Unwrap(flag))))

\* filter_map(join(" ") unless empty).last() over div.ge-text-light elements
RECURSIVE LastJoined(_)
LastJoined(divs) ==
    IF divs = <<>> THEN None
    ELSE IF IsSome(LastJoined(Tail(divs))) THEN LastJoined(Tail(divs))
    ELSE NonEmpty(JoinTrimmed(Head(divs), <<" ">>))

infer_platform(url) ==
    LET url_lower == ToLower(url)
    IN  IF Contains(url_lower, <<"t", "w", "i", "t", "t", "e", "r", ".", "c", "o", "m">>) \/ Contains(url_lower, <<"x", ".", "c", "o", "m">>) THEN "twitter"
        ELSE IF Contains(url_lower, <<"t", "w", "i", "t", "c", "h", ".", "t", "v">>) THEN "twitch"
        ELSE IF Contains(url_lower, <<"i", "n", "s", "t", "a", "g", "r", "a", "m", ".", "c", "o", "m">>) THEN "instagram"
        ELSE IF Contains(url_lower, <<"y", "o", "u", "t", "u", "b", "e", ".", "c", "o", "m">>) \/ Contains(url_lower, <<"y", "o", "u", "t", "u", ".", "b", "e">>) THEN "youtube"
        ELSE IF Contains(url_lower, <<"t", "i", "k", "t", "o", "k", ".", "c", "o", "m">>) THEN "tiktok"
        ELSE "other"

\* the social links: the a elements with an href and a text
RECURSIVE Socials(_)
Socials(links) ==
    IF links = <<>> THEN <<>>
    ELSE LET href == Trim(OrEmpty(Head(links).href))
             display_text == cell_text(Head(links).texts)
         IN  (IF href = <<>> \/ display_text = <<>> THEN <<>>
              ELSE <<[platform |-> infer_platform(href), url |-> href,
                      display_text |-> display_text]>>)
             \o Socials(Tail(links))

\* whether an element has a style attribute that contains "font-weight"
HasFontWeight(el) == IsSome(el.style) /\ Contains(Unwrap(el.style), <<"f", "o", "n", "t", "-", "w", "e", "i", "g", "h", "t">>)

-----------------------------------------------------------------------------
(* vlr_scraper/match_item.rs: parse_match_items, parse_match_item, parse_team *)

ITEM_DATE_FORMAT == <<Num("Y"), Lit(<<"/">>), Num("m"), Lit(<<"/">>), Num("d")>>

\* collect::<Result<Vec<_>>>(): the first error, or all the values
RECURSIVE CollectResults(_)
CollectResults(results) ==
    IF results = <<>> THEN Ok(<<>>)
    ELSE IF ~Head(results).ok THEN Head(results)
    ELSE LET rest == CollectResults(Tail(results))
         IN  IF rest.ok THEN Ok(<<Head(results).val>> \o rest.val) ELSE rest

\* the last trimmed last-text-node of the elements, without newlines and tabs
LastOfLastTexts(els) ==
    RemoveNlTab(IF LastTexts(els) = <<>> THEN <<>> ELSE LastTexts(els)[Len(LastTexts(els))])

\* parse_team of match_item.rs: a div.m-item-team, the src of a logo image
\* and the text nodes of a score span
match_item_parse_team(team, logo, score) ==
    [name |-> select_text(team.name),
     tag |-> select_text(team.tag),
     logo_url |-> ImgSrc(logo),
     score |-> ParseU8(IF score = <<>> THEN <<>> ELSE Trim(score[Len(score)]))]

\* parse_match_item of match_item.rs.  An a.m-item: the href attribute, the
\* src of the thumbnail, the first div of div.m-item-event, the text nodes
\* of each div.m-item-event, the div.m-item-team elements, the src of each
\* logo, the text nodes of each score span and of each vod tag, the first
\* div of div.m-item-date and the text nodes of each div.m-item-date
match_item_parse_match_item(element) ==
    LET tuple == IF IsSome(element.href)
                 THEN CollectTuple2(Split(OrEmpty(StripPrefix(Unwrap(element.href), <<"/">>)), "/"))
                 ELSE None
        id == ParseU32(Unwrap(tuple)[1])
        n == Min(Len(element.teams), Min(Len(element.logos), Len(element.scores)))
        date == NaiveDateParse(select_text(element.date), ITEM_DATE_FORMAT)
        time == NaiveTimeParse(LastOfLastTexts(element.dates), MATCH_TIME_FORMAT)
    IN  IF ~IsSome(tuple) THEN Err("ElementNotFound: match item href")
        ELSE Ok([id |-> IF IsSome(id) THEN Unwrap(id) ELSE 0,
                 slug |-> Unwrap(tuple)[2],
                 league_icon |-> ImgSrc(element.thumb),
                 league_name |-> select_text(element.event_name),
                 league_series_name |-> LastOfLastTexts(element.events),
                 teams |-> [i \in 1..n |-> match_item_parse_team(element.teams[i],
                                               element.logos[i], element.scores[i])],
                 vods |-> LastTexts(element.vods),
                 match_start |-> IF IsSome(date) /\ IsSome(time)
                                 THEN Some(AndTime(Unwrap(date), Unwrap(time))) ELSE None])

\* the a.m-item elements of a page
parse_match_items(document) ==
    CollectResults([i \in 1..Len(document) |-> match_item_parse_match_item(document[i])])

-----------------------------------------------------------------------------
(* scraper/player.rs: get_player and its parsers *)

\* div.player-header: the name and real-name elements, the src of the
\* avatar, the classes of the flag, the text nodes of each div.ge-text-light
\* and the a elements with their href and text nodes
parse_player_info(document, player_id) ==
    LET header == Unwrap(document.header)
    IN  IF ~IsSome(document.header) THEN Err("ElementNotFound: player header")
        ELSE Ok([id |-> player_id,
                 name |-> select_text(header.name),
                 real_name |-> NonEmpty(select_text(header.real_name)),
                 avatar_url |-> IF IsSome(header.avatar)
                                THEN Some(normalize_img_url(Unwrap(header.avatar))) ELSE None,
                 country |-> LastJoined(header.light_divs),
                 country_code |-> FlagCode(header.flag),
                 socials |-> Socials(header.links)])

\* The element after the first h2.wf-label whose text contains the title:
\* None without such a label or without a sibling element
RECURSIVE FindCard(_, _)
FindCard(labels, title) ==
    IF labels = <<>> THEN None
    ELSE IF Contains(cell_text(Head(labels).texts), title) THEN Head(labels).card
    ELSE FindCard(Tail(labels), title)

\* An a.wf-module-item of a teams card: the href, the src of the image, the
\* div elements with their style and text nodes, the div.ge-text-light texts.
\* The function returns Ok for every element.
parse_player_team(element) ==
    LET href == OrEmpty(element.href)
        name_divs == SelectSeq(element.divs, HasFontWeight)
    IN  [id |-> TeamIdSlug(href)[1],
         slug |-> TeamIdSlug(href)[2],
         href |-> href,
         name |-> IF name_divs = <<>> THEN <<>> ELSE cell_text(Head(name_divs).texts),
         logo_url |-> ImgSrc(element.img),
         info |-> LastJoined(element.light_divs)]

parse_teams_section(document, section_title) ==
    LET card == FindCard(document.labels, section_title)
    IN  IF ~IsSome(card) THEN <<>>
        ELSE [i \in 1..Len(Unwrap(card).items) |-> parse_player_team(Unwrap(card).items[i])]

parse_player_overview(document, player_id) ==
    LET info == parse_player_info(document, player_id)
    IN  IF ~info.ok THEN info
        ELSE Ok([info |-> info.val,
                 current_teams |-> parse_teams_section(document, <<"C", "u", "r", "r", "e", "n", "t", " ", "T", "e", "a", "m", "s">>),
                 past_teams |-> parse_teams_section(document, <<"P", "a", "s", "t", " ", "T", "e", "a", "m", "s">>)])

\* the news items with an href and a title; children are the child elements
RECURSIVE NewsItems(_)
NewsItems(items) ==
    IF items = <<>> THEN <<>>
    ELSE LET a == Head(items)
             href == Trim(OrEmpty(a.href))
             weighted == SelectSeq(a.children, HasFontWeight)
             title == cell_text(Concat([i \in 1..Len(weighted) |-> weighted[i].texts]))
         IN  (IF href = <<>> \/ title = <<>> THEN <<>>
              ELSE <<[href |-> href,
                      date |-> select_text(IF a.light_divs = <<>> THEN None
                                           ELSE Some(Head(a.light_divs))),
                      title |-> title]>>)
             \o NewsItems(Tail(items))

parse_player_news(document) ==
    LET card == FindCard(document.labels, <<"L", "a", "t", "e", "s", "t", " ", "N", "e", "w", "s">>)
    IN  IF ~IsSome(card) THEN <<>> ELSE NewsItems(Unwrap(card).items)

\* The (id, slug) pair of an event link "/event/<id>/<slug>": the id is 0
\* when it is not an integer; None when the shape is another
EventIdSlug(href) ==
    LET tuple == CollectTuple2(Split(OrEmpty(StripPrefix(href, <<"/", "e", "v", "e", "n", "t", "/">>)), "/"))
        id == ParseU32(Unwrap(tuple)[1])
    IN  IF ~IsSome(tuple) THEN None
        ELSE Some(<<IF IsSome(id) THEN Unwrap(id) ELSE 0, Unwrap(tuple)[2]>>)

\* the text of the first span[style] with a font weight, None when it is empty
Prize(spans) ==
    LET weighted == SelectSeq(spans, HasFontWeight)
    IN  IF weighted = <<>> THEN None ELSE NonEmpty(cell_text(Head(weighted).texts))

\* the entry divs of an event: the text nodes of its span.ge-text-light, its
\* span[style] elements and all its text nodes
RECURSIVE PlacementEntries(_)
PlacementEntries(divs) ==
    IF divs = <<>> THEN <<>>
    ELSE LET d == Head(divs)
             stage_placement == IF IsSome(d.stage) THEN cell_text(Unwrap(d.stage)) ELSE <<>>
             split == SplitOnce(stage_placement, EN_DASH)
             prize == Prize(d.spans)
             joined == RemoveAll(RemoveAll(JoinTrimmed(d.texts, <<" ">>), stage_placement),
                                 <<EN_DASH>>)
         IN  (IF stage_placement = <<>> THEN <<>>
              ELSE <<[stage |-> IF IsSome(split) THEN Trim(Unwrap(split)[1]) ELSE stage_placement,
                      placement |-> IF IsSome(split) THEN Trim(Unwrap(split)[2]) ELSE <<>>,
                      prize |-> prize,
                      team_name |-> Trim(IF IsSome(prize) THEN RemoveAll(joined, Unwrap(prize))
                                         ELSE joined)]>>)
             \o PlacementEntries(Tail(divs))

IsTextOf(d) == HasClass(d.classes, "text-of")
IsEntryDiv(d) == ~IsTextOf(d)

\* the a.player-event-item elements that have an entry: the href, the
\* div.text-of element and the child elements, each with its text nodes
\* and its own child elements
RECURSIVE EventPlacements(_)
EventPlacements(items) ==
    IF items = <<>> THEN <<>>
    ELSE LET a == Head(items)
             href == Trim(OrEmpty(a.href))
             event == EventIdSlug(href)
             entries == IF a.children = <<>> THEN <<>>
                        ELSE PlacementEntries(SelectSeq(Head(a.children).children, IsEntryDiv))
         IN  (IF entries = <<>> THEN <<>>
              ELSE <<[event_id |-> IF IsSome(event) THEN Unwrap(event)[1] ELSE 0,
                      event_slug |-> IF IsSome(event) THEN Unwrap(event)[2] ELSE <<>>,
                      event_href |-> href,
                      event_name |-> select_text(a.name),
                      placements |-> entries,
                      year |-> IF a.children = <<>> THEN <<>>
                               ELSE cell_text(a.children[Len(a.children)].texts)]>>)
             \o EventPlacements(Tail(items))

\* the placements and the total winnings (the first span of the first child
\* of the card, None when absent or empty)
parse_event_placements(document) ==
    LET card == FindCard(document.labels, <<"E", "v", "e", "n", "t", " ", "P", "l", "a", "c", "e", "m", "e", "n", "t", "s">>)
    IN  IF ~IsSome(card) THEN [placements |-> <<>>, total_winnings |-> None]
        ELSE [placements |-> EventPlacements(Unwrap(card).event_items),
              total_winnings |-> IF IsSome(Unwrap(card).header_span)
                                 THEN NonEmpty(cell_text(Unwrap(Unwrap(card).header_span)))
                                 ELSE None]

\* parse_usage with both values 0 when the count does not parse
parse_usage_all_or_nothing(text) ==
    LET parts == Split(text, ")")
        count == AndThen(StripPrefix(parts[1], <<"(">>), LAMBDA inner : ParseU32(Trim(inner)))
        second == IF Len(parts) >= 2 THEN Trim(parts[2]) ELSE <<>>
        pct == IF Len(parts) >= 2 /\ EndsWith(second, <<"%">>)
               THEN ParseF32(Trim(Take(second, Len(second) - 1))) ELSE None
    IN  IF IsSome(count)
        THEN <<Unwrap(count), UnwrapOr(Map(pct, Div100), F32Zero)>>
        ELSE <<0, F32Zero>>

\* "(95) 20%" -> (95, 0.20); 0 for a part that does not parse
parse_usage(text) ==
    LET parts == Split(text, ")")
        count == AndThen(StripPrefix(parts[1], <<"(">>), LAMBDA inner : ParseU32(Trim(inner)))
        second == IF Len(parts) >= 2 THEN Trim(parts[2]) ELSE <<>>
        pct == IF Len(parts) >= 2 /\ EndsWith(second, <<"%">>)
               THEN ParseF32(Trim(Take(second, Len(second) - 1))) ELSE None
    IN  <<UnwrapOr(count, 0), UnwrapOr(Map(pct, Div100), F32Zero)>>

parse_pct(text) ==
    LET p == IF EndsWith(text, <<"%">>) THEN ParseF32(Trim(Take(text, Len(text) - 1))) ELSE None
    IN  UnwrapOr(Map(p, Div100), F32Zero)

parse_f32(text) == UnwrapOr(ParseF32(Trim(text)), F32Zero)

parse_u32(text) == UnwrapOr(ParseU32(Trim(text)), 0)

\* the AgentStats of a row: the alt of its image, its usage and the texts of
\* its cells
AgentStatsOf(agent, usage, t) ==
    [agent |-> agent,
     usage_count |-> usage[1],
     usage_pct |-> usage[2],
     rounds |-> parse_u32(t[3]), rating |-> parse_f32(t[4]),
     acs |-> parse_f32(t[5]), kd |-> parse_f32(t[6]),
     adr |-> parse_f32(t[7]), kast |-> parse_pct(t[8]),
     kpr |-> parse_f32(t[9]), apr |-> parse_f32(t[10]),
     fkpr |-> parse_f32(t[11]), fdpr |-> parse_f32(t[12]),
     kills |-> parse_u32(t[13]), deaths |-> parse_u32(t[14]),
     assists |-> parse_u32(t[15]), first_kills |-> parse_u32(t[16]),
     first_deaths |-> parse_u32(t[17])]

\* one row of the agent table: its td cells, each with its text nodes and
\* the alt attribute of its first image
AgentRow(cells) ==
    LET t == [i \in 1..Len(cells) |-> cell_text(cells[i].texts)]
    IN  IF Len(cells) < 17
        THEN Err("ElementNotFound: agent stats row: expected 17 columns")
        ELSE Ok(AgentStatsOf(OrEmpty(cells[1].img_alt), parse_usage(t[2]), t))

\* parse_agent_stats with the short rows left out instead of reported
parse_agent_stats_skipping_short_rows(document) ==
    CollectResults([i \in 1..Len(SelectSeq(document.rows, LAMBDA r : Len(r) >= 17)) |->
                       AgentRow(SelectSeq(document.rows, LAMBDA r : Len(r) >= 17)[i])])

\* the rows of table.wf-table tbody
parse_agent_stats(document) ==
    CollectResults([i \in 1..Len(document.rows) |-> AgentRow(document.rows[i])])

\* get_player after the overview page is fetched
PlayerFrom(overview, news, placements, agent_stats) ==
    IF ~overview.ok THEN overview
    ELSE IF ~agent_stats.ok THEN agent_stats
    ELSE Ok([info |-> overview.val.info,
             current_teams |-> overview.val.current_teams,
             past_teams |-> overview.val.past_teams,
             news |-> news,
             agent_stats |-> agent_stats.val,
             event_placements |-> placements.placements,
             total_winnings |-> placements.total_winnings])

PlayerOf(document, player_id) ==
    PlayerFrom(parse_player_overview(document, player_id), parse_player_news(document),
               parse_event_placements(document), parse_agent_stats(document))

-----------------------------------------------------------------------------
(* vlr_scraper/team.rs: get_team and its parsers *)

\* .team-header: the name and tag elements, the src of the logo, the text
\* nodes of .team-header-country, the classes of its flag, the links
parse_team_header(document, team_id) ==
    LET header == Unwrap(document.header)
    IN  IF ~IsSome(document.header) THEN Err("ElementNotFound: team header")
        ELSE Ok([id |-> team_id,
                 name |-> select_text(header.name),
                 tag |-> NonEmpty(select_text(header.tag)),
                 logo_url |-> IF IsSome(header.logo)
                              THEN Some(normalize_img_url(Unwrap(header.logo))) ELSE None,
                 country |-> IF IsSome(header.country)
                             THEN NonEmpty(JoinTrimmed(Unwrap(header.country), <<" ">>))
                             ELSE None,
                 country_code |-> FlagCode(header.flag),
                 socials |-> Socials(header.links)])

\* the .team-roster-item elements with a link "/player/<id>/<slug>": the
\* href of the first a[href], the alias, real-name and role elements, the
\* classes of the flag, the src of the image, whether there is a star
RECURSIVE parse_roster(_)
parse_roster(items) ==
    IF items = <<>> THEN <<>>
    ELSE LET item == Head(items)
             href == Trim(OrEmpty(item.href))
             tuple == CollectTuple2(Split(OrEmpty(StripPrefix(href, <<"/", "p", "l", "a", "y", "e", "r", "/">>)), "/"))
             id == ParseU32(Unwrap(tuple)[1])
             role == IF IsSome(item.role) THEN cell_text(Unwrap(item.role)) ELSE <<>>
         IN  (IF ~IsSome(item.href) \/ ~IsSome(tuple) THEN <<>>
              ELSE <<[id |-> IF IsSome(id) THEN Unwrap(id) ELSE 0,
                      slug |-> Unwrap(tuple)[2],
                      href |-> href,
                      alias |-> IF IsSome(item.alias) THEN cell_text(Unwrap(item.alias)) ELSE <<>>,
                      real_name |-> IF IsSome(item.real_name)
                                    THEN NonEmpty(cell_text(Unwrap(item.real_name))) ELSE None,
                      country_code |-> FlagCode(item.flag),
                      avatar_url |-> IF IsSome(item.img)
                                     THEN Some(normalize_img_url(Unwrap(item.img))) ELSE None,
                      role |-> IF role = <<>> THEN <<"p", "l", "a", "y", "e", "r">> ELSE role,
                      is_captain |-> item.star]>>)
             \o parse_roster(Tail(items))

\* the a.team-event-item elements with a link "/event/<id>/<slug>": the
\* href, the div.text-of element, the text nodes of the last child element
\* and of span.team-event-item-series, the span[style] elements
RECURSIVE TeamEventPlacements(_)
TeamEventPlacements(items) ==
    IF items = <<>> THEN <<>>
    ELSE LET a == Head(items)
             href == Trim(OrEmpty(a.href))
             event == EventIdSlug(href)
             stage_placement == IF IsSome(a.series)
                                THEN JoinTrimmed(Unwrap(a.series), <<" ">>) ELSE <<>>
             split == SplitOnce(stage_placement, EN_DASH)
         IN  (IF ~IsSome(event) THEN <<>>
              ELSE <<[event_id |-> Unwrap(event)[1],
                      event_slug |-> Unwrap(event)[2],
                      event_href |-> href,
                      event_name |-> select_text(a.name),
                      placements |->
                          <<[stage |-> IF IsSome(split) THEN Trim(Unwrap(split)[1])
                                       ELSE stage_placement,
                             placement |-> IF IsSome(split) THEN Trim(Unwrap(split)[2]) ELSE <<>>,
                             prize |-> Prize(a.spans),
                             team_name |-> None]>>,
                      year |-> IF IsSome(a.last_child) THEN cell_text(Unwrap(a.last_child))
                               ELSE <<>>]>>)
             \o TeamEventPlacements(Tail(items))

\* the text of the element after the first div.wf-module-label that
\* contains "Total Winnings", None when absent or empty
TeamTotalWinnings(labels) ==
    LET span == FindCard(labels, <<"T", "o", "t", "a", "l", " ", "W", "i", "n", "n", "i", "n", "g", "s">>)
    IN  IF IsSome(span) THEN NonEmpty(cell_text(Unwrap(span))) ELSE None

\* get_team after the page is fetched
TeamOf(document, team_id) ==
    LET info == parse_team_header(document, team_id)
    IN  IF ~info.ok THEN info
        ELSE Ok([info |-> info.val,
                 roster |-> parse_roster(document.roster),
                 event_placements |-> TeamEventPlacements(document.event_items),
                 total_winnings |-> TeamTotalWinnings(document.labels)])

-----------------------------------------------------------------------------
(* Pages: the documents a response can carry *)

\* pages of the list calls hold up to MaxPageElems elements
MaxPageElems == 2

\* a div.match-header with the given event icon, date and team links
HeaderEl(event_icon, date, team_links) ==
    [event_icon |-> event_icon,
     event_title |-> Some(<<<<"\n", "\t">>, <<"C", "h", "a", "m", "p", "i", "o", "n", "s", " ", "2", "0", "2", "5">>>>),
     event_series |-> Some(<<<<"\n", "\t", "P", "l", "a", "y", "o", "f", "f", "s", ":", " ", "G", "r", "a", "n", "d", " ", "F", "i", "n", "a", "l", "\n">>>>),
     date |-> date,
     patch |-> Some(<<<<"\n", "\t", "P", "a", "t", "c", "h", " ", "1", "0", ".", "0", "8", "\n">>>>),
     vs_notes |-> <<<<<<"\n", "\t", "f", "i", "n", "a", "l", "\n">>>>, <<<<" ", "B", "o", "5", " ">>>>>>,
     event_href |-> Some(<<"/", "e", "v", "e", "n", "t", "/", "2", "0", "9", "7", "/", "c", "h", "a", "m", "p", "i", "o", "n", "s", "/", "p", "l", "a", "y", "o", "f", "f", "s">>),
     note |-> Some(<<<<"\n", "\t", "N", "R", "G", " ", "b", "a", "n", " ", "B", "i", "n", "d", ";", " ", "F", "N", "C", " ", "b", "a", "n", " ", "P", "e", "a", "r", "l", "\n">>>>),
     team_links |-> team_links,
     team_names |-> <<<<<<"\n", "\t", "N", "R", "G", "\n">>>>, <<<<" ", "F", "N", "A", "T", "I", "C", " ">>>>>>,
     team_scores |-> <<<<<<"3">>>>, <<<<" ", "2", " ">>>>>>,
     team_icons |-> <<Some(<<"/", "/", "o", "w", "c", "d", "n", ".", "n", "e", "t", "/", "i", "m", "g", "/", "n", "r", "g", ".", "p", "n", "g">>), None>>]

\* a player row with the given link and name
PlayerRow(href, name) ==
    [flag_title |-> Some(<<" ", "U", "n", "i", "t", "e", "d", " ", "S", "t", "a", "t", "e", "s", " ">>),
     href |-> href,
     name |-> Some(<<<<"\n", "\t">>, name>>),
     agents |-> <<Some(<<"J", "e", "t", "t">>)>>,
     stats |-> <<Some(<<<<" ", "1", ".", "2", "5", " ">>>>), Some(<<<<"2", "5", "0">>>>), Some(<<<<"2", "0">>>>), Some(<<<<"1", "5">>>>),
                 Some(<<<<"5">>>>), Some(<<<<"+", "5">>>>), Some(<<<<"7", "5", "%">>>>), Some(<<<<"1", "6", "0", ".", "5">>>>),
                 Some(<<<<"3", "0", "%">>>>), Some(<<<<"3">>>>), None, Some(<<<<"-", "1">>>>)>>]

\* a div.vm-stats-game with the given player rows
GameEl(players1, players2) ==
    [map |-> Some(<<<<"\n", "\t", "A", "s", "c", "e", "n", "t", "\n">>, <<"P", "I", "C", "K">>>>),
     picked |-> Some(<<"picked", "mod-1">>),
     duration |-> Some(<<<<" ", "4", "8", ":", "1", "2", " ">>>>),
     rounds |-> <<[num |-> Some(<<<<"1">>>>), squares |-> <<<<"rnd-sq", "mod-win", "mod-t">>, <<"rnd-sq">>>>],
                  [num |-> Some(<<<<"2">>>>), squares |-> <<<<"rnd-sq">>, <<"rnd-sq", "mod-win", "mod-ct">>>>],
                  [num |-> None, squares |-> <<<<"rnd-sq">>, <<"rnd-sq">>>>]>>,
     players1 |-> players1,
     players2 |-> players2,
     teams |-> <<[name |-> Some(<<<<" ", "N", "R", "G", " ">>>>),
                  score |-> Some([texts |-> <<<<"1", "3">>>>, classes |-> <<"score", "mod-win">>]),
                  score_t |-> Some(<<<<"7">>>>), score_ct |-> Some(<<<<"6">>>>)],
                 [name |-> Some(<<<<" ", "F", "N", "A", "T", "I", "C", " ">>>>),
                  score |-> Some([texts |-> <<<<"1", "1">>>>, classes |-> <<"score">>]),
                  score_t |-> Some(<<<<"5">>>>), score_ct |-> Some(<<<<"x">>>>)]>>]

\* a div.col.mod-3 of a match page with the given header and games
MatchColumn(header, games) ==
    [header |-> header,
     streams |-> <<[name |-> Some(<<<<" ", "V", "C", "T", " ", "E", "N", " ">>>>), link |-> Some(<<"h", "t", "t", "p", "s", ":", "/", "/", "t", "w", "i", "t", "c", "h", ".", "t", "v", "/", "v", "a", "l", "o", "r", "a", "n", "t">>)]>>,
     vods |-> <<[texts |-> <<<<" ", "M", "a", "p", " ", "1", " ">>>>, href |-> Some(<<"h", "t", "t", "p", "s", ":", "/", "/", "y", "o", "u", "t", "u", ".", "b", "e", "/", "a", "b", "c">>)]>>,
     games |-> games,
     h2h |-> <<[href |-> Some(<<"/", "9", "0", "0", "1", "/", "n", "r", "g", "-", "v", "s", "-", "f", "n", "a", "t", "i", "c">>), icon |-> Some(<<"/", "i", "m", "g", "/", "e", ".", "p", "n", "g">>),
                event_name |-> Some(<<<<"M", "a", "s", "t", "e", "r", "s">>>>), event_series |-> Some(<<<<"F", "i", "n", "a", "l">>>>),
                rf |-> Some([texts |-> <<<<"2">>>>, classes |-> <<"rf", "mod-win">>]),
                ra |-> Some([texts |-> <<<<"1">>>>]), date |-> Some(<<<<"2", "0", "2", "5", "/", "0", "6", "/", "0", "1">>>>)],
               [href |-> Some(<<"/", "x", "1", "/", "o", "l", "d">>), icon |-> None,
                event_name |-> None, event_series |-> None,
                rf |-> Some([texts |-> <<<<"0">>>>, classes |-> <<"rf">>]),
                ra |-> Some([texts |-> <<<<"2">>>>]), date |-> None]>>,
     histories |-> <<<<[href |-> Some(<<"/", "8", "0", "0", "1", "/", "n", "r", "g", "-", "v", "s", "-", "g", "2">>), rf |-> Some(<<<<"2">>>>),
                        ra |-> Some(<<<<"0">>>>), classes |-> <<"match-histories-item", "mod-win">>,
                        opponent_name |-> Some(<<<<"G", "2">>>>), opponent_logo |-> Some(<<"/", "/", "o", "w", "c", "d", "n", ".", "n", "e", "t", "/", "g", "2", ".", "p", "n", "g">>),
                        date |-> Some(<<<<"2", "0", "2", "5", "/", "0", "5", "/", "0", "1">>>>)]>>,
                      <<[href |-> Some(<<"/", "8", "0", "0", "2", "/", "f", "n", "c", "-", "v", "s", "-", "t", "h">>), rf |-> Some(<<<<"1">>>>),
                        ra |-> None, classes |-> <<"match-histories-item">>,
                        opponent_name |-> Some(<<<<"T", "H">>>>), opponent_logo |-> None,
                        date |-> None]>>>>]

GoodDate == Some(Some(<<"2", "0", "2", "5", "-", "1", "0", "-", "0", "5", " ", "1", "5", ":", "0", "0", ":", "0", "0">>))
GoodIcon == Some(Some(<<"/", "/", "o", "w", "c", "d", "n", ".", "n", "e", "t", "/", "i", "m", "g", "/", "c", "h", "a", "m", "p", "i", "o", "n", "s", ".", "p", "n", "g">>))
GoodLinks == <<Some(<<"/", "t", "e", "a", "m", "/", "1", "0", "3", "4", "/", "n", "r", "g">>), Some(<<"/", "t", "e", "a", "m", "/", "2", "5", "9", "3", "/", "f", "n", "a", "t", "i", "c">>)>>
GoodGame ==
    GameEl(<<PlayerRow(Some(<<"/", "p", "l", "a", "y", "e", "r", "/", "9", "/", "e", "t", "h", "a", "n">>), <<"E", "t", "h", "a", "n">>), PlayerRow(Some(<<"/", "p", "l", "a", "y", "e", "r", "/", "1", "2", "/", "m", "a", "d", "a">>), <<"m", "a", "d", "a">>)>>,
           <<PlayerRow(Some(<<"/", "p", "l", "a", "y", "e", "r", "/", "2", "1", "/", "b", "o", "a", "s", "t", "e", "r">>), <<"B", "o", "a", "s", "t", "e", "r">>)>>)

\* the documents of the match page
MatchPages ==
    { [column |-> None],
      [column |-> Some(MatchColumn(None, <<>>))],
      [column |-> Some(MatchColumn(Some(HeaderEl(None, GoodDate, GoodLinks)), <<GoodGame>>))],
      [column |-> Some(MatchColumn(Some(HeaderEl(GoodIcon, None, GoodLinks)), <<GoodGame>>))],
      [column |-> Some(MatchColumn(Some(HeaderEl(GoodIcon, Some(Some(<<"2", "0", "2", "5", "-", "0", "2", "-", "3", "0", " ", "1", "5", ":", "0", "0", ":", "0", "0">>)), GoodLinks)), <<GoodGame>>))],
      [column |-> Some(MatchColumn(Some(HeaderEl(GoodIcon, GoodDate, GoodLinks)), <<GoodGame>>))],
      [column |-> Some(MatchColumn(Some(HeaderEl(GoodIcon, Some(None), GoodLinks)), <<GoodGame>>))],
      [column |-> Some(MatchColumn(Some(HeaderEl(GoodIcon, Some(Some(<<"2", "0", "2", "5", "-", "1", "0", "-", "0", "5", "T", "1", "5", ":", "0", "0", ":", "0", "0">>)), GoodLinks)), <<GoodGame>>))],
      [column |-> Some(MatchColumn(Some(HeaderEl(GoodIcon, GoodDate,
                                                <<Some(<<"/", "t", "e", "a", "m", "/", "a", "b", "c", "/", "n", "r", "g">>), Some(<<"/", "t", "e", "a", "m", "/", "2", "5", "9", "3", "/", "f", "n", "a", "t", "i", "c">>)>>)),
                                   <<GameEl(<<PlayerRow(Some(<<"/", "p", "l", "a", "y", "e", "r", "/", "x", "9", "/", "e", "t", "h", "a", "n">>), <<"E", "t", "h", "a", "n">>)>>,
                                            <<PlayerRow(Some(<<"/", "p", "l", "a", "y", "e", "r", "/", "2", "1", "/", "b", "o", "a", "s", "t", "e", "r">>), <<"B", "o", "a", "s", "t", "e", "r">>)>>)>>))],
      [column |-> Some(MatchColumn(Some(HeaderEl(Some(None), GoodDate, <<Some(<<"/", "t", "e", "a", "m", "/", "1", "0", "3", "4", "/", "n", "r", "g">>), None>>)), <<>>))] }

\* a cell of a statistics table
Cell(texts, name, squares) == [texts |-> texts, name |-> name, squares |-> squares]
NameCell(name) == Cell(<<name>>, Some(<<<<"\n", "\t">>, name, <<"N", "R", "G">>>>), <<>>)
KillCell(kills, deaths) == Cell(<<kills, deaths>>, None, <<<<kills>>, <<deaths>>, <<<<"+", "1">>>>>>)
NumCell(text) == Cell(<<text>>, None, <<<<text>>>>)

MatrixRows ==
    <<<<Cell(<<>>, None, <<>>), NameCell(<<"B", "o", "a", "s", "t", "e", "r">>), NameCell(<<"N", "o", "b", "o", "d", "y">>)>>,
      <<NameCell(<<"E", "t", "h", "a", "n">>), KillCell(<<"4">>, <<" ", "3", " ">>), KillCell(<<"x">>, <<"2">>), KillCell(<<"1">>, <<"1">>)>>,
      <<>>,
      <<NameCell(<<"G", "h", "o", "s", "t">>), Cell(<<>>, None, <<<<<<"7">>>>>>)>>>>

AdvRowsEl ==
    <<<<NameCell(<<"E", "t", "h", "a", "n">>), Cell(<<>>, None, <<>>), NumCell(<<"3">>), NumCell(<<" ", "2", " ">>), NumCell(<<>>),
        Cell(<<>>, None, <<>>), NumCell(<<"1">>), NumCell(<<"0">>), NumCell(<<"0">>), NumCell(<<"3", "0", "0">>),
        NumCell(<<"0">>), NumCell(<<"6", "2">>), NumCell(<<"4">>), NumCell(<<"1">>)>>,
      <<NameCell(<<"E", "t", "h", "a", "n">>), NumCell(<<"3">>)>>,
      <<Cell(<<>>, None, <<>>), Cell(<<>>, None, <<>>), NumCell(<<"3">>), NumCell(<<"2">>), NumCell(<<"1">>),
        NumCell(<<"1">>), NumCell(<<"1">>), NumCell(<<"0">>), NumCell(<<"0">>), NumCell(<<"0">>),
        NumCell(<<"0">>), NumCell(<<"6", "2">>), NumCell(<<"4">>), NumCell(<<"1">>)>>>>

EconRowsEl ==
    <<<<Cell(<<<<"\n", "\t", "N", "R", "G", "\n">>>>, None, <<>>), NumCell(<<"2">>), NumCell(<<"4", " ", "(", "1", ")">>), NumCell(<<"3", " ", "(", "2">>),
        NumCell(<<"6">>), NumCell(<<"x", " ", "(", "y", ")">>)>>,
      <<Cell(<<<<" ">>>>, None, <<>>), NumCell(<<"2">>), NumCell(<<"4", " ", "(", "1", ")">>), NumCell(<<"3", " ", "(", "2", ")">>),
        NumCell(<<"6", " ", "(", "3", ")">>), NumCell(<<"9", " ", "(", "5", ")">>)>>,
      <<Cell(<<<<"F", "N", "A", "T", "I", "C">>>>, None, <<>>), NumCell(<<"1">>)>>>>

\* the section of game "all" with the given tables
AllGame(matrix, adv, econ) == Some([matrix |-> matrix, adv |-> adv, econ |-> econ])

\* the documents of the performance tab
PerfPages ==
    { [column |-> None],
      [column |-> Some([all_game |-> None])],
      [column |-> Some([all_game |-> AllGame(None, Some(AdvRowsEl), None)])],
      [column |-> Some([all_game |-> AllGame(Some(MatrixRows), None, None)])],
      [column |-> Some([all_game |-> AllGame(Some(MatrixRows), Some(AdvRowsEl), None)])],
      [column |-> Some([all_game |-> AllGame(Some(<<>>), Some(<<>>), None)])] }

\* the documents of the economy tab
EconPages ==
    { [column |-> None],
      [column |-> Some([all_game |-> None])],
      [column |-> Some([all_game |-> AllGame(None, None, None)])],
      [column |-> Some([all_game |-> AllGame(None, None, Some(EconRowsEl))])] }

\* an a.m-item with the given href
MItem(href) ==
    [href |-> href,
     thumb |-> Some(<<"/", "i", "m", "g", "/", "v", "l", "r", "/", "t", "m", "p", "/", "v", "l", "r", ".", "p", "n", "g">>),
     event_name |-> Some(<<<<"\n", "\t", "C", "h", "a", "m", "p", "i", "o", "n", "s", " ", "2", "0", "2", "5", "\n">>>>),
     events |-> <<<<<<"\n", "\t", "C", "h", "a", "m", "p", "i", "o", "n", "s", " ", "2", "0", "2", "5", "\n">>, <<"\n", "\t", "P", "l", "a", "y", "o", "f", "f", "s", " ", "-", " ", "G", "F", "\n">>>>>>,
     teams |-> <<[name |-> Some(<<<<" ", "N", "R", "G", " ">>>>), tag |-> Some(<<<<"#", "N", "R", "G">>>>)],
                 [name |-> Some(<<<<" ", "F", "N", "A", "T", "I", "C", " ">>>>), tag |-> None]>>,
     logos |-> <<Some(<<"/", "/", "o", "w", "c", "d", "n", ".", "n", "e", "t", "/", "n", "r", "g", ".", "p", "n", "g">>), None>>,
     scores |-> <<<<<<"3">>>>, <<<<" ", ":", " ">>, <<" ", "2", " ">>>>, <<<<"x">>>>>>,
     vods |-> <<<<<<" ", "M", "a", "p", " ", "1", " ">>>>, <<>>>>,
     date |-> Some(<<<<"\n", "\t", "2", "0", "2", "5", "/", "1", "0", "/", "0", "5", "\n">>>>),
     dates |-> <<<<<<"\n", "\t", "2", "0", "2", "5", "/", "1", "0", "/", "0", "5", "\n">>, <<"\n", "\t", "3", ":", "0", "0", " ", "p", "m", "\n">>>>>>]

MItemSamples ==
    { MItem(Some(<<"/", "5", "4", "2", "2", "7", "2", "/", "n", "r", "g", "-", "v", "s", "-", "f", "n", "a", "t", "i", "c">>)), MItem(Some(<<"/", "5", "4", "x", "/", "n", "r", "g", "-", "v", "s", "-", "g", "2">>)),
      MItem(None), MItem(Some(<<"/", "1", "/", "2", "/", "3">>)), MItem(Some(<<"1", "0", "1", "/", "t", "h", "-", "v", "s", "-", "d", "r", "x">>)) }

MatchItemPages == SeqsUpTo(MItemSamples, MaxPageElems)

\* pages of the event match list
MatchListPages == SeqsUpTo(LabelSamples \cup ItemSamples, MaxPageElems)

\* pages of events: the a.event-item elements of the first and of the last
\* column, the text nodes of the page links of the first and last pager
EventsPages ==
    { [upcoming |-> u, completed |-> c, pages_upcoming |-> p, pages_completed |-> <<<<<<"1">>>>, <<<<"7">>>>>>] :
        u \in SeqsUpTo(EventSamples, MaxPageElems),
        c \in {<<>>, <<CHOOSE e \in EventSamples : e.href = None>>},
        p \in {<<>>, <<<<<<"1">>>>, <<<<"3", "0", "0">>>>>>, <<<<<<"1">>>>, <<>>>>} }

\* a generic element with a style attribute and text nodes
Styled(style, texts) == [style |-> style, texts |-> texts]

\* an a.wf-module-item with the given href
ModuleItem(href) ==
    [href |-> href,
     img |-> Some(<<"/", "i", "m", "g", "/", "b", "a", "s", "e", "/", "p", "h", "/", "s", "q", ".", "p", "n", "g">>),
     divs |-> <<Styled(None, <<<<"x">>>>), Styled(Some(<<"f", "o", "n", "t", "-", "w", "e", "i", "g", "h", "t", ":", " ", "5", "0", "0", ";">>), <<<<"\n", "\t", "S", "e", "n", "t", "i", "n", "e", "l", "s", " ">>, <<"\n">>>>)>>,
     children |-> <<Styled(Some(<<"f", "o", "n", "t", "-", "w", "e", "i", "g", "h", "t", ":", " ", "5", "0", "0", ";", " ", "m", "a", "r", "g", "i", "n", ":", " ", "0">>), <<<<" ", "T", "e", "n", "Z", " ", "r", "e", "t", "i", "r", "e", "s", " ">>>>),
                    Styled(Some(<<"c", "o", "l", "o", "r", ":", " ", "#", "8", "8", "8">>), <<<<"2", "0", "2", "4", "/", "0", "9", "/", "1", "4">>>>)>>,
     light_divs |-> <<<<<<" ", "j", "o", "i", "n", "e", "d", " ", "i", "n", " ", "A", "p", "r", "i", "l", " ", "2", "0", "2", "1", " ">>>>, <<<<" ">>>>>>]

\* an a.player-event-item with the given href and entry divs
EventItem(href, entries) ==
    [href |-> href,
     name |-> Some(<<<<"\n", "\t", "C", "h", "a", "m", "p", "i", "o", "n", "s", " ", "2", "0", "2", "1", "\n">>>>),
     children |-> <<[texts |-> <<<<"C", "h", "a", "m", "p", "i", "o", "n", "s", " ", "2", "0", "2", "1">>>>, children |-> entries],
                    [texts |-> <<<<"\n", "\t", "2", "0", "2", "1", "\n">>>>, children |-> <<>>]>>]

EntryDivs ==
    <<[classes |-> <<"text-of">>, stage |-> Some(<<<<"s", "k", "i", "p", "p", "e", "d">>>>), spans |-> <<>>, texts |-> <<<<"C", "h", "a", "m", "p", "i", "o", "n", "s", " ", "2", "0", "2", "1">>>>],
      [classes |-> <<>>, stage |-> Some(<<<<" ", "P", "l", "a", "y", "o", "f", "f", "s", " ">> \o <<EN_DASH>> \o <<" ", "5", "t", "h">>>>),
       spans |-> <<Styled(Some(<<"f", "o", "n", "t", "-", "w", "e", "i", "g", "h", "t", ":", " ", "7", "0", "0">>), <<<<" ", "$", "4", "0", ",", "0", "0", "0", " ">>>>)>>,
       texts |-> <<<<" ", "P", "l", "a", "y", "o", "f", "f", "s", " ">> \o <<EN_DASH>> \o <<" ", "5", "t", "h">>, <<" ", "$", "4", "0", ",", "0", "0", "0", " ">>, <<" ", "S", "e", "n", "t", "i", "n", "e", "l", "s", " ">>>>],
      [classes |-> <<>>, stage |-> Some(<<<<"G", "r", "o", "u", "p", "s">>>>), spans |-> <<Styled(Some(<<"c", "o", "l", "o", "r", ":", " ", "r", "e", "d">>), <<<<"n", "/", "a">>>>)>>,
       texts |-> <<<<"G", "r", "o", "u", "p", "s">>, <<"n", "/", "a">>, <<"S", "e", "n", "t", "i", "n", "e", "l", "s">>>>],
      [classes |-> <<>>, stage |-> None, spans |-> <<>>, texts |-> <<<<"n", "o", " ", "s", "t", "a", "g", "e">>>>]>>

\* an h2.wf-label with the element that follows it
LabelEl(text, card) == [texts |-> <<<<"\n", "\t">>, text, <<"\n">>>>, card |-> card]
CardEl(items, header_span, event_items) ==
    Some([items |-> items, header_span |-> header_span, event_items |-> event_items])

PlayerLabels ==
    { <<>>,
      <<LabelEl(<<"C", "u", "r", "r", "e", "n", "t", " ", "T", "e", "a", "m", "s">>, CardEl(<<ModuleItem(Some(<<"/", "t", "e", "a", "m", "/", "2", "/", "s", "e", "n", "t", "i", "n", "e", "l", "s">>)), ModuleItem(Some(<<"/", "t", "e", "a", "m", "/", "x", "2", "/", "o", "l", "d">>)), ModuleItem(None)>>, None, <<>>)),
        LabelEl(<<"P", "a", "s", "t", " ", "T", "e", "a", "m", "s">>, None),
        LabelEl(<<"L", "a", "t", "e", "s", "t", " ", "N", "e", "w", "s">>, CardEl(<<ModuleItem(Some(<<" ", "/", "3", "1", "0", "/", "t", "e", "n", "z", "-", "r", "e", "t", "i", "r", "e", "s", " ">>)), ModuleItem(None)>>, None, <<>>)),
        LabelEl(<<"E", "v", "e", "n", "t", " ", "P", "l", "a", "c", "e", "m", "e", "n", "t", "s">>, CardEl(<<>>, Some(<<<<" ", "$", "2", "5", "0", ",", "0", "0", "0", " ">>>>),
                    <<EventItem(Some(<<"/", "e", "v", "e", "n", "t", "/", "4", "4", "9", "/", "c", "h", "a", "m", "p", "i", "o", "n", "s", "-", "2", "0", "2", "1">>), EntryDivs),
                      EventItem(Some(<<"/", "e", "v", "e", "n", "t", "/", "a", "b", "c", "/", "x">>), EntryDivs),
                      EventItem(Some(<<"/", "e", "v", "e", "n", "t", "/", "1", "/", "n", "o", "n", "e">>), <<>>)>>))>>,
      <<LabelEl(<<"P", "a", "s", "t", " ", "T", "e", "a", "m", "s">>, CardEl(<<>>, None, <<>>)),
        LabelEl(<<"L", "a", "t", "e", "s", "t", " ", "N", "e", "w", "s">>, None),
        LabelEl(<<"E", "v", "e", "n", "t", " ", "P", "l", "a", "c", "e", "m", "e", "n", "t", "s">>, CardEl(<<>>, Some(<<<<" ">>>>), <<>>))>> }

StatCell(text) == [texts |-> <<<<"\n">>, text, <<" ">>>>, img_alt |-> None]

\* agent rows of 17 cells, of 16 cells and of 17 cells without numbers
AgentRowSamples ==
    { <<[texts |-> <<>>, img_alt |-> Some(<<"j", "e", "t", "t">>)], StatCell(<<"(", "9", "5", ")", " ", "2", "0", "%">>), StatCell(<<"1", "2", "0", "0">>),
        StatCell(<<"1", ".", "2", "5">>), StatCell(<<"2", "5", "0", ".", "5">>), StatCell(<<"1", ".", "3">>), StatCell(<<"1", "6", "0">>),
        StatCell(<<"7", "7", "%">>), StatCell(<<"0", ".", "9">>), StatCell(<<"0", ".", "2", "5">>), StatCell(<<"0", ".", "2">>),
        StatCell(<<"0", ".", "1">>), StatCell(<<"9", "0", "0">>), StatCell(<<"7", "0", "0">>), StatCell(<<"3", "0", "0">>),
        StatCell(<<"1", "5", "0">>), StatCell(<<"1", "2", "0">>)>>,
      <<[texts |-> <<>>, img_alt |-> Some(<<"o", "m", "e", "n">>)], StatCell(<<"(", "1", "2", ")", " ", "3", "%">>), StatCell(<<"1", "0", "0">>),
        StatCell(<<"1", ".", "0">>), StatCell(<<"2", "0", "0">>), StatCell(<<"1", ".", "0">>), StatCell(<<"1", "3", "0">>),
        StatCell(<<"7", "0", "%">>), StatCell(<<"0", ".", "7">>), StatCell(<<"0", ".", "3">>), StatCell(<<"0", ".", "1">>),
        StatCell(<<"0", ".", "1">>), StatCell(<<"7", "0">>), StatCell(<<"7", "0">>), StatCell(<<"3", "0">>),
        StatCell(<<"1", "0">>)>>,
      <<[texts |-> <<>>, img_alt |-> None], StatCell(<<"9", "5", " ", "2", "0">>), StatCell(<<"-">>),
        StatCell(<<>>), StatCell(<<"n", "/", "a">>), StatCell(<<"1", ".", "3">>), StatCell(<<"1", "6", "0">>),
        StatCell(<<"7", "7">>), StatCell(<<"0", ".", "9">>), StatCell(<<"0", ".", "2", "5">>), StatCell(<<"0", ".", "2">>),
        StatCell(<<"0", ".", "1">>), StatCell(<<"9", "0", "0">>), StatCell(<<"7", "0", "0">>), StatCell(<<"3", "0", "0">>),
        StatCell(<<"1", "5", "0">>), StatCell(<<"1", "2", "0">>)>> }

PlayerHeaderEl ==
    [name |-> Some(<<<<"\n", "\t", "T", "e", "n", "Z", "\n">>>>),
     real_name |-> Some(<<<<" ", "T", "y", "s", "o", "n", " ", "N", "g", "o", " ">>>>),
     avatar |-> Some(<<"/", "/", "o", "w", "c", "d", "n", ".", "n", "e", "t", "/", "i", "m", "g", "/", "t", "e", "n", "z", ".", "p", "n", "g">>),
     flag |-> Some(<<<<"f", "l", "a", "g">>, <<"m", "o", "d", "-", "c", "a">>>>),
     light_divs |-> <<<<<<"\n">>>>, <<<<" ", "C", "A", "N", "A", "D", "A", " ">>>>>>,
     links |-> <<[href |-> Some(<<" ", "h", "t", "t", "p", "s", ":", "/", "/", "x", ".", "c", "o", "m", "/", "T", "e", "n", "Z", " ">>), texts |-> <<<<" ", "@", "T", "e", "n", "Z", " ">>>>],
                 [href |-> None, texts |-> <<<<"n", "o", "n", "e">>>>],
                 [href |-> Some(<<"h", "t", "t", "p", "s", ":", "/", "/", "w", "w", "w", ".", "T", "w", "i", "t", "c", "h", ".", "t", "v", "/", "t", "e", "n", "z">>), texts |-> <<<<"t", "w", "i", "t", "c", "h", ".", "t", "v", "/", "t", "e", "n", "z">>>>]>>]

\* the documents of the player overview page
PlayerPages ==
    { [header |-> h, labels |-> l, rows |-> r] :
        h \in {None, Some(PlayerHeaderEl)},
        l \in PlayerLabels,
        r \in SeqsUpTo(AgentRowSamples, MaxPageElems) }

\* a .team-roster-item with the given link
RosterItem(href) ==
    [href |-> href, alias |-> Some(<<<<"\n", "\t", "B", "o", "a", "s", "t", "e", "r", "\n">>>>), real_name |-> Some(<<<<" ", "J", "a", "k", "e", " ", "H", "o", "w", "l", "e", "t", "t", " ">>>>),
     flag |-> Some(<<<<"f", "l", "a", "g">>, <<"m", "o", "d", "-", "g", "b">>>>), img |-> Some(<<"/", "i", "m", "g", "/", "b", "a", "s", "e", "/", "p", "h", "/", "s", "i", "l", ".", "p", "n", "g">>),
     star |-> TRUE, role |-> None]

\* the documents of the team page
TeamPages ==
    { [header |-> None, roster |-> <<>>, event_items |-> <<>>, labels |-> <<>>],
      [header |-> Some([name |-> Some(<<<<" ", "F", "N", "A", "T", "I", "C", " ">>>>), tag |-> Some(<<<<"F", "N", "C">>>>),
                        logo |-> Some(<<"/", "/", "o", "w", "c", "d", "n", ".", "n", "e", "t", "/", "i", "m", "g", "/", "f", "n", "c", ".", "p", "n", "g">>),
                        country |-> Some(<<<<"\n">>, <<" ", "E", "u", "r", "o", "p", "e", " ">>>>),
                        flag |-> Some(<<<<"f", "l", "a", "g">>, <<"m", "o", "d", "-", "e", "u">>>>),
                        links |-> <<[href |-> Some(<<"h", "t", "t", "p", "s", ":", "/", "/", "f", "n", "a", "t", "i", "c", ".", "c", "o", "m">>), texts |-> <<<<"f", "n", "a", "t", "i", "c", ".", "c", "o", "m">>>>]>>]),
       roster |-> <<RosterItem(Some(<<"/", "p", "l", "a", "y", "e", "r", "/", "2", "1", "/", "b", "o", "a", "s", "t", "e", "r">>)), RosterItem(Some(<<"/", "p", "l", "a", "y", "e", "r", "/", "x", "/", "y">>)),
                    RosterItem(None), RosterItem(Some(<<"/", "t", "e", "a", "m", "/", "2", "5", "9", "3", "/", "f", "n", "a", "t", "i", "c">>))>>,
       event_items |-> <<[href |-> Some(<<"/", "e", "v", "e", "n", "t", "/", "2", "0", "9", "7", "/", "c", "h", "a", "m", "p", "i", "o", "n", "s">>), name |-> Some(<<<<"C", "h", "a", "m", "p", "i", "o", "n", "s">>>>),
                          last_child |-> Some(<<<<" ", "2", "0", "2", "5", " ">>>>),
                          series |-> Some(<<<<" ", "P", "l", "a", "y", "o", "f", "f", "s", " ">> \o <<EN_DASH>> \o <<" ", "2", "n", "d", " ">>>>),
                          spans |-> <<Styled(Some(<<"f", "o", "n", "t", "-", "w", "e", "i", "g", "h", "t", ":", " ", "7", "0", "0">>), <<<<"$", "4", "0", "0", ",", "0", "0", "0">>>>)>>],
                         [href |-> Some(<<"/", "e", "v", "e", "n", "t", "/", "2", "0", "9", "7">>), name |-> None, last_child |-> None,
                          series |-> None, spans |-> <<>>]>>,
       labels |-> <<[texts |-> <<<<" ", "T", "o", "t", "a", "l", " ", "W", "i", "n", "n", "i", "n", "g", "s", " ">>>>, card |-> Some(<<<<" ", "$", "1", ",", "5", "0", "0", ",", "0", "0", "0", " ">>>>)]>>],
      [header |-> Some([name |-> None, tag |-> None, logo |-> None, country |-> None,
                        flag |-> None, links |-> <<>>]),
       roster |-> <<>>, event_items |-> <<>>,
       labels |-> <<[texts |-> <<<<"T", "o", "t", "a", "l", " ", "W", "i", "n", "n", "i", "n", "g", "s">>>>, card |-> None]>>] }

-----------------------------------------------------------------------------
(* The get_* calls of VlrClient and scraper/mod.rs: get_document *)

RequestNames == {"main", "perf", "econ"}

\* the calls and their arguments
CallSamples ==
    { [name |-> "get_events", id |-> 0, event_type |-> "Upcoming", page |-> 1],
      [name |-> "get_events", id |-> 0, event_type |-> "Completed", page |-> 2],
      [name |-> "get_matchlist", id |-> 2097, event_type |-> "", page |-> 0],
      [name |-> "get_match", id |-> 542272, event_type |-> "", page |-> 0],
      [name |-> "get_player_matchlist", id |-> 9, event_type |-> "", page |-> 1],
      [name |-> "get_player", id |-> 9, event_type |-> "", page |-> 0],
      [name |-> "get_team", id |-> 2593, event_type |-> "", page |-> 0] }

NoCall == [name |-> "none", id |-> 0, event_type |-> "", page |-> 0]

\* the documents the body of a response can hold
PagesOf(c, r) ==
    CASE r = "perf" -> PerfPages
      [] r = "econ" -> EconPages
      [] c.name = "get_events" -> EventsPages
      [] c.name = "get_matchlist" -> MatchListPages
      [] c.name = "get_match" -> MatchPages
      [] c.name = "get_player_matchlist" -> MatchItemPages
      [] c.name = "get_player" -> PlayerPages
      [] c.name = "get_team" -> TeamPages

StatusSamples == {200, 404, 503}

\* StatusCode::is_success
is_success(status) == status >= 200 /\ status < 300

\* a request completes with a Result
Complete(r, res) ==
    /\ req' = [req EXCEPT ![r] = [st |-> "done", res |-> Some(res)]]
    /\ done_log' = Append(done_log, r)

Completed(r) == req[r].st = "done"
ResultOf(r) == Unwrap(req[r].res)

\* get_document: send() fails
SendFails(r) ==
    /\ req[r].st = "sending"
    /\ Complete(r, Err("Http"))
    /\ UNCHANGED <<call, pc, req_log, result, cl_ret, mlVars, evVars, pfVars>>

\* get_document: the response arrives and its status is checked
StatusArrives(r) ==
    /\ req[r].st = "sending"
    /\ \E status \in StatusSamples :
          IF is_success(status)
          THEN /\ req' = [req EXCEPT ![r].st = "reading"]
               /\ UNCHANGED done_log
          ELSE Complete(r, Err("UnexpectedStatus"))
    /\ UNCHANGED <<call, pc, req_log, result, cl_ret, mlVars, evVars, pfVars>>

\* get_document: text() fails
BodyFails(r) ==
    /\ req[r].st = "reading"
    /\ Complete(r, Err("ResponseBody"))
    /\ UNCHANGED <<call, pc, req_log, result, cl_ret, mlVars, evVars, pfVars>>

\* get_document: the body arrives and is parsed as a document
BodyArrives(r) ==
    /\ req[r].st = "reading"
    /\ \E document \in PagesOf(call, r) : Complete(r, Ok(document))
    /\ UNCHANGED <<call, pc, req_log, result, cl_ret, mlVars, evVars, pfVars>>

\* the call ends with a Result
Return(res) ==
    /\ cl_ret' = Some(res)
    /\ pc' = "done"

\* every call starts with the request of its page
IssueMain ==
    /\ pc = "start"
    /\ req' = [req EXCEPT !["main"].st = "sending"]
    /\ req_log' = Append(req_log, "main")
    /\ pc' = "fetch"
    /\ UNCHANGED <<call, done_log, result, cl_ret, mlVars, evVars, pfVars>>

\* FetchFailed with an empty result returned in place of the error
FetchFailedDefault ==
    /\ pc = "fetch"
    /\ Completed("main")
    /\ ~ResultOf("main").ok
    /\ Return(Ok(<<>>))
    /\ UNCHANGED <<call, req, req_log, done_log, result, mlVars, evVars, pfVars>>

\* FetchFailed with the request of the page sent again
FetchFailedRetry ==
    /\ pc = "fetch"
    /\ Completed("main")
    /\ ~ResultOf("main").ok
    /\ req' = [req EXCEPT !["main"] = [st |-> "sending", res |-> None]]
    /\ req_log' = Append(req_log, "main")
    /\ UNCHANGED <<call, pc, done_log, result, cl_ret, mlVars, evVars, pfVars>>

\* get_document(..).await? when the request of the page fails
FetchFailed ==
    /\ pc = "fetch"
    /\ Completed("main")
    /\ ~ResultOf("main").ok
    /\ Return(ResultOf("main"))
    /\ UNCHANGED <<call, req, req_log, done_log, result, mlVars, evVars, pfVars>>

Fetched(name) ==
    /\ pc = "fetch"
    /\ call.name = name
    /\ Completed("main")
    /\ ResultOf("main").ok

\* GetMatchParse with the tab requests sent before the page is parsed
GetMatchParseAfterTabs ==
    /\ Fetched("get_match")
    /\ req' = [req EXCEPT !["perf"].st = "sending", !["econ"].st = "sending"]
    /\ req_log' = req_log \o <<"perf", "econ">>
    /\ LET column == ResultOf("main").val.column
           parsed == parse_match(call.id, Unwrap(column))
       IN  IF ~IsSome(column)
           THEN /\ Return(Err("ElementNotFound: match page column (div.col.mod-3)"))
                /\ UNCHANGED result
           ELSE IF ~parsed.ok
           THEN /\ Return(parsed)
                /\ UNCHANGED result
           ELSE /\ result' = Some(parsed.val)
                /\ pc' = "join"
                /\ UNCHANGED cl_ret
    /\ UNCHANGED <<call, done_log, mlVars, evVars, pfVars>>

\* get_match: the column of the page and parse_match
GetMatchParse ==
    /\ Fetched("get_match")
    /\ LET column == ResultOf("main").val.column
           Parsed(parsed) ==
               IF ~parsed.ok
               THEN /\ Return(parsed)
                    /\ UNCHANGED result
               ELSE /\ result' = Some(parsed.val)
                    /\ pc' = "tabs"
                    /\ UNCHANGED cl_ret
       IN  IF ~IsSome(column)
           THEN /\ Return(Err("ElementNotFound: match page column (div.col.mod-3)"))
                /\ UNCHANGED result
           ELSE Parsed(parse_match(call.id, Unwrap(column)))
    /\ UNCHANGED <<call, req, req_log, done_log, mlVars, evVars, pfVars>>

\* get_match: join! polls both get_document futures, which send their requests
GetMatchIssueTabs ==
    /\ pc = "tabs"
    /\ req' = [req EXCEPT !["perf"].st = "sending", !["econ"].st = "sending"]
    /\ req_log' = req_log \o <<"perf", "econ">>
    /\ pc' = "join"
    /\ UNCHANGED <<call, done_log, result, cl_ret, mlVars, evVars, pfVars>>

\* the value of `result.performance` for the Result of the performance request
AbsorbPerformance(perf_result, m) ==
    IF perf_result.ok
    THEN AndThen(perf_result.val.column, LAMBDA col : OkOf(parse_performance(col, m)))
    ELSE None

\* the value of `result.economy` for the Result of the economy request
AbsorbEconomy(econ_result) ==
    IF econ_result.ok
    THEN AndThen(econ_result.val.column, LAMBDA col : OkOf(parse_economy(col)))
    ELSE None

\* GetMatchAbsorbPerf with the error of the request propagated
GetMatchAbsorbPerfOrFail ==
    /\ pc = "join"
    /\ Completed("perf")
    /\ Completed("econ")
    /\ IF ResultOf("perf").ok
       THEN /\ result' = Some([Unwrap(result) EXCEPT
                           !.performance = AbsorbPerformance(ResultOf("perf"), Unwrap(result))])
            /\ pc' = "econ"
            /\ UNCHANGED cl_ret
       ELSE /\ Return(ResultOf("perf"))
            /\ UNCHANGED result
    /\ UNCHANGED <<call, req, req_log, done_log, mlVars, evVars, pfVars>>

\* get_match: join! is ready when both futures are; `result.performance = ...`
GetMatchAbsorbPerf ==
    /\ pc = "join"
    /\ Completed("perf")
    /\ Completed("econ")
    /\ result' = Some([Unwrap(result) EXCEPT
                   !.performance = AbsorbPerformance(ResultOf("perf"), Unwrap(result))])
    /\ pc' = "econ"
    /\ UNCHANGED <<call, req, req_log, done_log, cl_ret, mlVars, evVars, pfVars>>

\* GetMatchAbsorbEcon with the economy dropped when the performance request failed
GetMatchAbsorbEconUnlessPerfFailed ==
    /\ pc = "econ"
    /\ result' = Some([Unwrap(result) EXCEPT
                   !.economy = IF ResultOf("perf").ok THEN AbsorbEconomy(ResultOf("econ"))
                               ELSE None])
    /\ pc' = "return"
    /\ UNCHANGED <<call, req, req_log, done_log, cl_ret, mlVars, evVars, pfVars>>

\* GetMatchAbsorbEcon with the games dropped when the economy is absent
GetMatchAbsorbEconForGames ==
    /\ pc = "econ"
    /\ LET economy == AbsorbEconomy(ResultOf("econ"))
       IN  result' = Some([Unwrap(result) EXCEPT
                       !.economy = economy,
                       !.games = IF IsSome(economy) THEN @ ELSE <<>>])
    /\ pc' = "return"
    /\ UNCHANGED <<call, req, req_log, done_log, cl_ret, mlVars, evVars, pfVars>>

\* get_match: `result.economy = ...`
GetMatchAbsorbEcon ==
    /\ pc = "econ"
    /\ result' = Some([Unwrap(result) EXCEPT !.economy = AbsorbEconomy(ResultOf("econ"))])
    /\ pc' = "return"
    /\ UNCHANGED <<call, req, req_log, done_log, cl_ret, mlVars, evVars, pfVars>>

\* get_match: Ok(result)
GetMatchReturn ==
    /\ pc = "return"
    /\ Return(Ok(Unwrap(result)))
    /\ UNCHANGED <<call, req, req_log, done_log, result, mlVars, evVars, pfVars>>

\* get_events: parse_events starts on the elements of the column of the
\* event type
GetEventsParse ==
    /\ Fetched("get_events")
    /\ ev_doc' = IF call.event_type = "Upcoming" THEN ResultOf("main").val.upcoming
                 ELSE ResultOf("main").val.completed
    /\ ev_i' = 1
    /\ events' = <<>>
    /\ ev_ret' = None
    /\ pc' = "parse"
    /\ UNCHANGED <<call, req, req_log, done_log, result, cl_ret, mlVars, pfVars>>

\* the first text node of the last page link as a u8, or 1
parse_total_pages(event_type, document) ==
    LET els == IF event_type = "Upcoming" THEN document.pages_upcoming
               ELSE document.pages_completed
        last == els[Len(els)]
        n == ParseU8(Head(last))
    IN  IF els # <<>> /\ last # <<>> /\ IsSome(n) THEN Unwrap(n) ELSE 1

\* get_events: parse_total_pages and Ok(EventsData)
GetEventsReturn ==
    /\ pc = "parse"
    /\ call.name = "get_events"
    /\ IsSome(ev_ret)
    /\ Return(IF Unwrap(ev_ret).ok
              THEN Ok([events |-> Unwrap(ev_ret).val,
                       page |-> call.page,
                       total_pages |-> parse_total_pages(call.event_type, ResultOf("main").val)])
              ELSE Unwrap(ev_ret))
    /\ UNCHANGED <<call, req, req_log, done_log, result, mlVars, evVars, pfVars>>

\* get_matchlist: parse_matches starts on the elements of the page
GetMatchlistParse ==
    /\ Fetched("get_matchlist")
    /\ ml_doc' = ResultOf("main").val
    /\ ml_i' = 1
    /\ last_date' = None
    /\ matches' = <<>>
    /\ ml_ret' = None
    /\ pc' = "parse"
    /\ UNCHANGED <<call, req, req_log, done_log, result, cl_ret, evVars, pfVars>>

\* get_matchlist: parse_matches(..)? and Ok(matches)
GetMatchlistReturn ==
    /\ pc = "parse"
    /\ call.name = "get_matchlist"
    /\ IsSome(ml_ret)
    /\ Return(Unwrap(ml_ret))
    /\ UNCHANGED <<call, req, req_log, done_log, result, mlVars, evVars, pfVars>>

\* get_player_matchlist: parse_match_items(..)? and Ok(matches)
GetPlayerMatchlistParse ==
    /\ Fetched("get_player_matchlist")
    /\ Return(parse_match_items(ResultOf("main").val))
    /\ UNCHANGED <<call, req, req_log, done_log, result, mlVars, evVars, pfVars>>

\* get_player: the parsers of the overview page and Ok(Player)
GetPlayerParse ==
    /\ Fetched("get_player")
    /\ Return(PlayerOf(ResultOf("main").val, call.id))
    /\ UNCHANGED <<call, req, req_log, done_log, result, mlVars, evVars, pfVars>>

\* get_team: the parsers of the team page and Ok(Team)
GetTeamParse ==
    /\ Fetched("get_team")
    /\ Return(TeamOf(ResultOf("main").val, call.id))
    /\ UNCHANGED <<call, req, req_log, done_log, result, mlVars, evVars, pfVars>>

\* no call in progress
ClIdle ==
    /\ call = NoCall
    /\ pc = "idle"
    /\ req = [r \in RequestNames |-> [st |-> "idle", res |-> None]]
    /\ req_log = <<>>
    /\ done_log = <<>>
    /\ result = None
    /\ cl_ret = None

\* no parser applied on its own
PFIdle ==
    /\ pf_call = [fn |-> "none"]
    /\ pf_ret = None

\* a call is made
ClInit ==
    /\ call \in CallSamples
    /\ pc = "start"
    /\ req = [r \in RequestNames |-> [st |-> "idle", res |-> None]]
    /\ req_log = <<>>
    /\ done_log = <<>>
    /\ result = None
    /\ cl_ret = None

-----------------------------------------------------------------------------
(* The parsers of the match page applied to one element *)

\* a div.match-header with the given team link, name, score and icon elements
HeaderWith(team_links, team_names, team_scores, team_icons) ==
    [HeaderEl(GoodIcon, GoodDate, team_links) EXCEPT
        !.team_names = team_names, !.team_scores = team_scores, !.team_icons = team_icons]

ThirdLink == Some(<<"/", "t", "e", "a", "m", "/", "7", "/", "g", "2">>)

\* the a.match-header-link elements: none to three, and two of which one has
\* no href
TeamLinkSeqs ==
    { <<>>, <<GoodLinks[1]>>, GoodLinks, GoodLinks \o <<ThirdLink>>,
      <<None, GoodLinks[2]>>, <<GoodLinks[1], None>> }

\* the div.wf-title-med elements: none to three
TeamNameSeqs ==
    { Take(<<<<<<"\n", "\t", "N", "R", "G", "\n">>>>, <<<<" ", "F", "N", "A", "T", "I", "C", " ">>>>, <<<<"G", "2">>>>>>, n) : n \in 0..3 }

\* the score spans: none to three
TeamScoreSeqs ==
    { <<>>, <<<<<<"3">>>>>>, <<<<<<"3">>>>, <<<<" ", "2", " ">>>>>>, <<<<<<"3">>>>, <<<<"x">>>>>>,
      <<<<<<"3">>>>, <<<<"2">>>>, <<<<"1">>>>>> }

\* the img elements of the links: none to three
TeamIconSeqs ==
    { Take(<<Some(<<"/", "/", "o", "w", "c", "d", "n", ".", "n", "e", "t", "/", "i", "m", "g", "/", "n", "r", "g", ".", "p", "n", "g">>), None, Some(<<"/", "i", "m", "g", "/", "g", "2", ".", "p", "n", "g">>)>>, n) : n \in 0..3 }

HeaderSamples ==
    { HeaderWith(l, n, s, i) :
        l \in TeamLinkSeqs, n \in TeamNameSeqs, s \in TeamScoreSeqs, i \in TeamIconSeqs }

\* a parser and the arguments it is applied to
PFCall(fn, args) == [fn |-> fn, args |-> args]

HeaderCalls == { PFCall("parse_header", <<h>>) : h \in HeaderSamples }

\* the parser of pf_call returns
PFReturn(fn, ret) ==
    /\ pf_call.fn = fn
    /\ pf_ret = None
    /\ pf_ret' = Some(ret)
    /\ UNCHANGED <<pf_call, mlVars, evVars, clVars>>

ApplyParseHeader ==
    /\ pf_call.fn = "parse_header"
    /\ PFReturn("parse_header", parse_header(pf_call.args[1]))

\* parsed headers with no, one and two teams
ParsedHeaders ==
    { parse_header(HeaderEl(GoodIcon, GoodDate, links)).val :
        links \in {<<>>, <<GoodLinks[1]>>, GoodLinks} }

\* a div.team of a game header
GameTeamEl(name, score) ==
    [name |-> Some(<<name>>),
     score |-> Some([texts |-> <<score>>, classes |-> <<"score">>]),
     score_t |-> Some(<<<<"7">>>>), score_ct |-> None]

\* a round column with the given div.rnd-num texts and div.rnd-sq classes
RoundCol(num, squares) == [num |-> num, squares |-> squares]

RoundNums == {Some(<<<<"1">>>>), Some(<<<<"2">>>>), Some(<<<<"x">>>>), None}

RoundSquares ==
    { <<<<"rnd-sq", "mod-win", "mod-t">>, <<"rnd-sq">>>>,
      <<<<"rnd-sq">>, <<"rnd-sq", "mod-win", "mod-ct">>>>,
      <<<<"rnd-sq">>, <<"rnd-sq">>>>,
      <<<<"rnd-sq">>, <<"rnd-sq">>, <<"rnd-sq", "mod-win", "mod-t">>>>,
      <<<<"rnd-sq", "mod-win">>, <<"rnd-sq", "mod-win", "mod-t">>>>,
      <<>> }

RoundCols == { RoundCol(n, s) : n \in RoundNums, s \in RoundSquares }

\* the round columns of a game: at most MaxRounds
MaxRounds == 2

RoundColSeqs == SeqsUpTo(RoundCols, MaxRounds)

\* div.vm-stats-game elements with no to three div.team elements
GameSamples ==
    { [GoodGame EXCEPT
          !.teams = Take(<<GameTeamEl(<<" ", "N", "R", "G", " ">>, <<"1", "3">>), GameTeamEl(<<"F", "N", "A", "T", "I", "C">>, <<"1", "1">>),
                           GameTeamEl(<<"G", "2">>, <<"x">>)>>, n),
          !.players2 = p2,
          !.rounds = r] :
        n \in 0..3, p2 \in {<<>>, GoodGame.players2},
        r \in {<<>>, GoodGame.rounds} }

GameCalls == { PFCall("parse_game", <<h, g>>) : h \in ParsedHeaders, g \in GameSamples }

ApplyParseGame ==
    /\ pf_call.fn = "parse_game"
    /\ PFReturn("parse_game", parse_game(pf_call.args[1], pf_call.args[2]))

ApplyParseRounds ==
    /\ pf_call.fn = "parse_rounds"
    /\ PFReturn("parse_rounds", parse_rounds(pf_call.args[1], pf_call.args[2]))

\* div.match-item-vs-team elements of an a.match-item: none to three
ItemTeamSeqs == { Take(TwoTeams \o <<TeamEl(FALSE, None, None)>>, n) : n \in 0..3 }

\* a.match-item elements with none to three teams
ListItemSamples ==
    { Item(href, time, teams, ItemTags, ItemEvent, ItemSeries) :
        href \in {Some(<<"/", "1", "0", "1", "/", "k", "r", "u", "-", "v", "s", "-", "g", "2">>), Some(<<"/", "a", "b", "c", "/", "x">>)},
        time \in {Some(<<<<"3", ":", "0", "0", " ", "P", "M">>>>), Some(<<<<"T", "B", "D">>>>)},
        teams \in ItemTeamSeqs }

ListItemCalls ==
    { PFCall("parse_match_item", <<e, d>>) :
        e \in ListItemSamples, d \in {None, Some([year |-> 2025, month |-> 1, day |-> 4])} }

\* a.m-item elements with none to three team, logo and score elements
HistoryItemSamples ==
    { [MItem(href) EXCEPT
          !.teams = Take(@ \o <<[name |-> None, tag |-> None]>>, n),
          !.logos = Take(@ \o <<None>>, m),
          !.scores = Take(@, k)] :
        href \in {Some(<<"/", "5", "4", "2", "2", "7", "2", "/", "n", "r", "g", "-", "v", "s", "-", "f", "n", "a", "t", "i", "c">>), Some(<<"/", "5", "4", "x", "/", "n", "r", "g", "-", "v", "s", "-", "g", "2">>), None},
        n \in 0..3, m \in 0..3, k \in 0..3 }

HistoryItemCalls ==
    { PFCall("match_item_parse_match_item", <<e>>) : e \in HistoryItemSamples }

ApplyParseMatchItem ==
    /\ pf_call.fn = "parse_match_item"
    /\ PFReturn("parse_match_item", parse_match_item(pf_call.args[1], pf_call.args[2]))

ApplyMatchItemParseMatchItem ==
    /\ pf_call.fn = "match_item_parse_match_item"
    /\ PFReturn("match_item_parse_match_item", match_item_parse_match_item(pf_call.args[1]))

\* an a.wf-module-item.mod-h2h with the given href and score spans
H2HItem(href, rf, ra) ==
    [href |-> href, icon |-> Some(<<"/", "i", "m", "g", "/", "e", ".", "p", "n", "g">>),
     event_name |-> Some(<<<<"M", "a", "s", "t", "e", "r", "s">>>>), event_series |-> Some(<<<<"F", "i", "n", "a", "l">>>>),
     rf |-> rf, ra |-> ra, date |-> Some(<<<<"2", "0", "2", "5", "/", "0", "6", "/", "0", "1">>>>)]

H2HItemSamples ==
    { H2HItem(href, rf, ra) :
        href \in {Some(<<"/", "9", "0", "0", "1", "/", "n", "r", "g", "-", "v", "s", "-", "f", "n", "a", "t", "i", "c">>), Some(<<"/", "x", "1", "/", "o", "l", "d">>)},
        rf \in {Some([texts |-> <<<<"2">>>>, classes |-> <<"rf", "mod-win">>]),
                Some([texts |-> <<<<" ", "0", " ">>>>, classes |-> <<"rf">>]),
                Some([texts |-> <<<<"x">>>>, classes |-> <<"rf">>]),
                None},
        ra \in {Some([texts |-> <<<<"1">>>>, classes |-> <<"ra">>]),
                Some([texts |-> <<>>, classes |-> <<"ra", "mod-win">>]),
                None} }

\* an a.match-histories-item with the given href, score spans and classes
PastItem(href, rf, ra, classes) ==
    [href |-> href, rf |-> rf, ra |-> ra, classes |-> classes,
     opponent_name |-> Some(<<<<"G", "2">>>>), opponent_logo |-> Some(<<"/", "/", "o", "w", "c", "d", "n", ".", "n", "e", "t", "/", "g", "2", ".", "p", "n", "g">>),
     date |-> Some(<<<<"2", "0", "2", "5", "/", "0", "5", "/", "0", "1">>>>)]

PastItemSamples ==
    { PastItem(href, rf, ra, classes) :
        href \in {Some(<<"/", "8", "0", "0", "1", "/", "n", "r", "g", "-", "v", "s", "-", "g", "2">>), None},
        rf \in {Some(<<<<"2">>>>), None},
        ra \in {Some(<<<<"0">>>>), Some(<<<<"-">>>>)},
        classes \in {<<"match-histories-item", "mod-win">>, <<"match-histories-item">>} }

\* the entries of a head-to-head section or of a history card: at most MaxPast
MaxPast == 2

H2HCalls ==
    { PFCall("parse_head_to_head", <<items>>) : items \in SeqsUpTo(H2HItemSamples, MaxPast) }

\* the div.match-histories cards: none, one, or two of which the first is given
PastCalls ==
    { PFCall("parse_past_matches", <<h, cards>>) :
        h \in ParsedHeaders,
        cards \in {<<>>} \cup { <<c>> : c \in SeqsUpTo(PastItemSamples, MaxPast) }
                    \cup { <<c, <<>>>> : c \in SeqsUpTo(PastItemSamples, 1) } }

ApplyParseHeadToHead ==
    /\ pf_call.fn = "parse_head_to_head"
    /\ PFReturn("parse_head_to_head", parse_head_to_head(pf_call.args[1]))

ApplyParsePastMatches ==
    /\ pf_call.fn = "parse_past_matches"
    /\ PFReturn("parse_past_matches", parse_past_matches(pf_call.args[1], pf_call.args[2]))

\* the digits of the numbers in an economy cell: at most MaxDigits
MaxDigits == 2

\* what stands where a number is expected: nothing, digits, a number above
\* the range of u8, a text that is no number
NumberTexts ==
    SeqsUpTo({"0", "3", "9"}, MaxDigits) \cup {<<"2", "5", "5">>, <<"2", "5", "6">>, <<"x">>}

\* the texts of an economy cell: "<total> (<won>)" and the texts that lack
\* one of its parts
EconCellTexts ==
    { total \o space \o open \o won \o close :
        total \in NumberTexts, space \in {<<>>, <<" ">>}, open \in {<<>>, <<"(">>},
        won \in NumberTexts, close \in {<<>>, <<")">>} }

RoundsWonCalls == { PFCall("parse_rounds_won", <<text>>) : text \in EconCellTexts }

ApplyParseRoundsWon ==
    /\ pf_call.fn = "parse_rounds_won"
    /\ PFReturn("parse_rounds_won", parse_rounds_won(pf_call.args[1]))

\* what stands for the count and for the percentage of a usage text
UsageCountTexts == NumberTexts \cup {<<"9", "5">>, <<"U+00A0", "7", "\r">>, <<"4", "2", "9", "4", "9", "6", "7", "2", "9", "6">>}
UsagePctTexts == {<<"2", "0">>, <<"0", ".", "7">>, <<"1", "0", "0">>, <<"0">>, <<"y">>, <<>>}

\* a usage text from its parts
UsageText(open, count, close, space, pct, percent) ==
    open \o count \o close \o space \o pct \o percent

\* the usage texts: "(<count>) <pct>%" and the texts that lack one of its parts
UsageTexts ==
    { UsageText(open, count, close, space, pct, percent) :
        open \in {<<>>, <<"(">>}, count \in UsageCountTexts, close \in {<<>>, <<")">>},
        space \in {<<>>, <<" ">>}, pct \in UsagePctTexts, percent \in {<<>>, <<"%">>} }

UsageCalls == { PFCall("parse_usage", <<text>>) : text \in UsageTexts }

ApplyParseUsage ==
    /\ pf_call.fn = "parse_usage"
    /\ PFReturn("parse_usage", parse_usage(pf_call.args[1]))

\* the characters of an image URL: at most MaxUrlLen
MaxUrlLen == 4

\* the src attributes: every short text of slashes and other characters,
\* and three URLs of the three kinds
UrlSamples ==
    SeqsUpTo({"/", "a", ":", "."}, MaxUrlLen)
        \cup {<<"/", "/", "c", "d", "n", "/", "x", ".", "p", "n", "g">>, <<"/", "i", "m", "g", "/", "x", ".", "p", "n", "g">>, <<"h", "t", "t", "p", "s", ":", "/", "/", "x", "/", "y">>}

UrlCalls ==
    { PFCall(fn, <<src>>) : fn \in {"normalize_img_url", "parse_img_link"}, src \in UrlSamples }

ApplyNormalizeImgUrl ==
    /\ pf_call.fn = "normalize_img_url"
    /\ PFReturn("normalize_img_url", normalize_img_url(pf_call.args[1]))

ApplyParseImgLink ==
    /\ pf_call.fn = "parse_img_link"
    /\ PFReturn("parse_img_link", parse_img_link(pf_call.args[1]))

\* the kill matrix: at most MaxVictims victim columns, MaxKillers killer rows
\* and MaxKillCells cells after the name of a killer
MaxVictims == 2
MaxKillers == 2
MaxKillCells == 2

\* the match of the performance tab: Ethan (9), mada (12) and Boaster (21)
PerfMatch ==
    parse_match(542272, MatchColumn(Some(HeaderEl(GoodIcon, GoodDate, GoodLinks)), <<GoodGame>>)).val

\* the first row of the table: nothing, or the corner cell and the victims
VictimRows ==
    {<<>>} \cup
    { <<Cell(<<>>, None, <<>>)>> \o [j \in 1..Len(names) |-> NameCell(names[j])] :
        names \in SeqsUpTo({<<"B", "o", "a", "s", "t", "e", "r">>, <<"N", "o", "b", "o", "d", "y">>}, MaxVictims) }

KillCellSamples == {KillCell(<<"4">>, <<" ", "3", " ">>), Cell(<<>>, None, <<<<<<"x">>>>, <<<<"2">>>>>>)}

\* a later row: nothing, or the killer and the cells
KillerRowSamples ==
    {<<>>} \cup
    { <<NameCell(name)>> \o cells :
        name \in {<<"E", "t", "h", "a", "n">>, <<"G", "h", "o", "s", "t">>}, cells \in SeqsUpTo(KillCellSamples, MaxKillCells) }

MatrixSamples ==
    {<<>>, MatrixRows} \cup
    { <<victims>> \o killers :
        victims \in VictimRows, killers \in SeqsUpTo(KillerRowSamples, MaxKillers) }

\* the columns of the performance tab
PerfColumns ==
    { Unwrap(page.column) : page \in { p \in PerfPages : IsSome(p.column) } }
        \cup { [all_game |-> AllGame(Some(rows), Some(AdvRowsEl), None)] : rows \in MatrixSamples }

ApplyParsePerformance ==
    /\ pf_call.fn = "parse_performance"
    /\ PFReturn("parse_performance", parse_performance(pf_call.args[1], pf_call.args[2]))

\* the games of a match: at most MaxGames
MaxGames == 2

\* a player of a game with the id and the name of parse_player
NamedPlayer(id, name) == [id |-> id, name |-> name]

\* the players of a team: players of one name with two ids and without an
\* id, a player without a name
TeamPlayerSamples ==
    { <<>>,
      <<NamedPlayer(9, <<"E", "t", "h", "a", "n">>)>>,
      <<NamedPlayer(9, <<"E", "t", "h", "a", "n">>), NamedPlayer(10, <<"E", "t", "h", "a", "n">>)>>,
      <<NamedPlayer(10, <<"E", "t", "h", "a", "n">>), NamedPlayer(0, <<"E", "t", "h", "a", "n">>)>>,
      <<NamedPlayer(21, <<>>), NamedPlayer(21, <<"B", "o", "a", "s", "t", "e", "r">>)>> }

\* the games of two teams
NameGames ==
    { [teams |-> <<[players |-> p1], [players |-> p2]>>] :
        p1 \in TeamPlayerSamples, p2 \in TeamPlayerSamples }

\* the matches, with the games that build_player_name_map reads
NameMatches == { [games |-> games] : games \in SeqsUpTo(NameGames, MaxGames) }

\* a performance tab with the rows of Ethan and Ghost
NamesColumn == [all_game |-> AllGame(Some(MatrixRows), Some(AdvRowsEl), None)]

ApplyBuildPlayerNameMap ==
    /\ pf_call.fn = "build_player_name_map"
    /\ PFReturn("build_player_name_map", build_player_name_map(pf_call.args[1]))

-----------------------------------------------------------------------------
(* Specifications: one per operation, the others idle *)

MLNext == MLLabel \/ MLItem \/ MLReturn

InitMatchList == MLInit /\ EVIdle /\ ClIdle /\ PFIdle

SpecMatchList == InitMatchList /\ [][MLNext]_vars

EVNext == EVItem \/ EVReturn

InitEvents == EVInit /\ MLIdle /\ ClIdle /\ PFIdle

SpecEvents == InitEvents /\ [][EVNext]_vars

ClNext ==
    \/ IssueMain
    \/ \E r \in RequestNames : SendFails(r)
    \/ \E r \in RequestNames : StatusArrives(r)
    \/ \E r \in RequestNames : BodyFails(r)
    \/ \E r \in RequestNames : BodyArrives(r)
    \/ FetchFailed
    \/ GetMatchParse
    \/ GetMatchIssueTabs
    \/ GetMatchAbsorbPerf
    \/ GetMatchAbsorbEcon
    \/ GetMatchReturn
    \/ GetEventsParse
    \/ EVItem
    \/ EVReturn
    \/ GetEventsReturn
    \/ GetMatchlistParse
    \/ MLLabel
    \/ MLItem
    \/ MLReturn
    \/ GetMatchlistReturn
    \/ GetPlayerMatchlistParse
    \/ GetPlayerParse
    \/ GetTeamParse
InitClient == ClInit /\ MLIdle /\ EVIdle /\ PFIdle
SpecClient == InitClient /\ [][ClNext]_vars

\* a parser is applied to arguments of its samples
PFInit ==
    /\ \/ pf_call \in HeaderCalls
       \/ pf_call \in GameCalls
       \/ \E h \in ParsedHeaders, r \in RoundColSeqs :
              pf_call = PFCall("parse_rounds", <<h, r>>)
       \/ pf_call \in ListItemCalls
       \/ pf_call \in HistoryItemCalls
       \/ pf_call \in H2HCalls
       \/ pf_call \in PastCalls
       \/ pf_call \in RoundsWonCalls
       \/ pf_call \in UsageCalls
       \/ pf_call \in UrlCalls
       \/ \E column \in PerfColumns :
              pf_call = PFCall("parse_performance", <<column, PerfMatch>>)
       \/ \E m \in NameMatches :
              \/ pf_call = PFCall("build_player_name_map", <<m>>)
              \/ pf_call = PFCall("parse_performance", <<NamesColumn, m>>)
    /\ pf_ret = None

PFNext ==
    \/ ApplyParseHeader
    \/ ApplyParseGame
    \/ ApplyParseRounds
    \/ ApplyParseMatchItem
    \/ ApplyMatchItemParseMatchItem
    \/ ApplyParseHeadToHead
    \/ ApplyParsePastMatches
    \/ ApplyParseRoundsWon
    \/ ApplyParseUsage
    \/ ApplyNormalizeImgUrl
    \/ ApplyParseImgLink
    \/ ApplyParsePerformance
    \/ ApplyBuildPlayerNameMap

InitParse == PFInit /\ MLIdle /\ EVIdle /\ ClIdle
SpecParse == InitParse /\ [][PFNext]_vars

-----------------------------------------------------------------------------
(* Properties of parse_matches (SpecMatchList) *)

MLDone == IsSome(ml_ret)
MLResult == Unwrap(ml_ret)

ItemPositions == {k \in 1..Len(ml_doc) : ml_doc[k].kind = "item"}
LabelPositions == {k \in 1..Len(ml_doc) : ml_doc[k].kind = "label"}

\* what the document says about the element at position k
ItemHref(k) == IF IsSome(ml_doc[k].href) THEN Unwrap(ml_doc[k].href) ELSE <<>>
ItemId(k) == ParseU32(MatchHrefIdSlug(ItemHref(k))[1])
ItemTime(k) == NaiveTimeParse(select_text(ml_doc[k].time), MATCH_TIME_FORMAT)
LabelText(k) == IF ml_doc[k].texts = <<>> THEN <<>> ELSE Trim(ml_doc[k].texts[1])
LabelDate(k) == ParseLabelDate(LabelText(k))

\* the items whose id is an integer, and the place of such an item among them
IdItems == {k \in ItemPositions : IsSome(ItemId(k))}
RankIn(S, k) == Cardinality({m \in S : m <= k})

\* the last label before position k, 0 when there is none
LastLabelBefore(k, labels) ==
    IF \E j \in labels : j < k
    THEN CHOOSE j \in labels : j < k /\ \A m \in labels : m < k => m <= j
    ELSE 0

TextLabels == {k \in LabelPositions : ml_doc[k].texts # <<>>}

\* C3: an Ok result has exactly one entry per match item of the document, in
\* document order, and the entry of an item that follows a date label
\* carries the date of the last label before it.
C3_CountEqualsItems ==
    (MLDone /\ MLResult.ok) =>
        /\ Len(MLResult.val) = Cardinality(ItemPositions)
        /\ \A k \in ItemPositions :
               LET e == MLResult.val[RankIn(ItemPositions, k)]
                   l == LastLabelBefore(k, LabelPositions)
               IN  (l # 0 /\ IsSome(e.date_time)) => Some(Unwrap(e.date_time).date) = LabelDate(l)

ScenarioDoc ==
    <<Label(<<<<"S", "a", "t", ",", " ", "J", "a", "n", " ", "4", ",", " ", "2", "0", "2", "5">>>>),
      Item(Some(<<"/", "1", "0", "1", "/", "k", "r", "u", "-", "v", "s", "-", "g", "2">>), Some(<<<<"3", ":", "0", "0", " ", "P", "M">>>>), TwoTeams, ItemTags, ItemEvent, ItemSeries),
      Item(Some(<<"/", "1", "0", "2", "/", "a", "-", "v", "s", "-", "b">>), Some(<<<<"T", "B", "D">>>>), TwoTeams, ItemTags, ItemEvent, ItemSeries)>>

\* C4: an item's time never fails the page or drops the item.  The call
\* fails only on a date label; an item (with an integer id) whose time element
\* is missing or not in "%I:%M %p" is returned with date_time absent, the
\* other items have the date-time of their label and time; and the label
\* "Sat, Jan 4, 2025" followed by the times "3:00 PM" and "TBD" gives
\* 2025-01-04T15:00:00 and an absent date-time.
C4_BadTimeLeavesDateTimeAbsent ==
    MLDone =>
        /\ ~MLResult.ok => (ml_i \in TextLabels /\ ~IsSome(LabelDate(ml_i)))
        /\ MLResult.ok =>
             /\ Len(MLResult.val) = Cardinality(IdItems)
             /\ \A k \in IdItems :
                    LET e == MLResult.val[RankIn(IdItems, k)]
                        l == LastLabelBefore(k, TextLabels)
                    IN  /\ e.id = Unwrap(ItemId(k))
                        /\ ~IsSome(ItemTime(k)) => e.date_time = None
                        /\ (IsSome(ItemTime(k)) /\ l # 0) =>
                               e.date_time = Some(AndTime(Unwrap(LabelDate(l)), Unwrap(ItemTime(k))))
        /\ ml_doc = ScenarioDoc =>
             /\ MLResult.ok
             /\ Len(MLResult.val) = 2
             /\ MLResult.val[1].date_time =
                    Some([date |-> [year |-> 2025, month |-> 1, day |-> 4],
                          time |-> [hour |-> 15, minute |-> 0, second |-> 0]])
             /\ MLResult.val[2].date_time = None

C4_Witness == MLDone /\ ml_doc = ScenarioDoc /\ Len(MLResult.val) = 2

\* C5 as claimed: a date label whose text matches neither format makes the
\* call fail (the text of a label without text nodes is empty).
C5_BadLabelFails ==
    MLDone => ((\E k \in LabelPositions : ~IsSome(LabelDate(k))) => ~MLResult.ok)

\* C5 amended: the call fails, with a date error and no list, exactly when
\* some date label has a text node and the first one, trimmed, matches
\* neither format, however many items were accumulated before it; a label
\* without any text node is skipped and leaves the current date as it was.
C5_BadTextLabelFails ==
    MLDone =>
        /\ (\E k \in TextLabels : ~IsSome(LabelDate(k))) <=> ~MLResult.ok
        /\ ~MLResult.ok => MLResult = Err("DateParse")

C5_Witness == MLDone /\ ~MLResult.ok /\ Len(matches) = 2

-----------------------------------------------------------------------------
(* Properties of parse_events (SpecEvents) *)

EVDone == IsSome(ev_ret)
EVResult == Unwrap(ev_ret)

EventStatuses == {"Completed", "Ongoing", "Upcoming", "Unknown"}

\* what the document says about the element at position k
EventIdText(k) ==
    EventHrefIdSlug(IF IsSome(ev_doc[k].href) THEN Unwrap(ev_doc[k].href) ELSE <<>>)[1]
EventId(k) == ParseU32(EventIdText(k))
EventStatusText(k) == select_text(ev_doc[k].status)

\* the lookup that ignores case
CaseInsensitiveStatus(s) ==
    IF ToAsciiLower(s) = <<"c", "o", "m", "p", "l", "e", "t", "e", "d">> THEN "Completed"
    ELSE IF ToAsciiLower(s) = <<"o", "n", "g", "o", "i", "n", "g">> THEN "Ongoing"
    ELSE IF ToAsciiLower(s) = <<"u", "p", "c", "o", "m", "i", "n", "g">> THEN "Upcoming"
    ELSE "Unknown"

\* the elements whose id is an integer
IdEvents == {k \in 1..Len(ev_doc) : IsSome(EventId(k))}

\* C9 as claimed: every returned event has an id other than 0 and a status of
\* the enum, and an element whose status text is missing or unrecognised is
\* returned with status Unknown.
C9_IdsNonZero ==
    EVDone =>
        /\ EVResult.ok
        /\ \A j \in 1..Len(EVResult.val) :
               EVResult.val[j].id # 0 /\ EVResult.val[j].status \in EventStatuses
        /\ Len(EVResult.val) = Cardinality(IdEvents)
        /\ \A k \in IdEvents :
               CaseInsensitiveStatus(EventStatusText(k)) = "Unknown" =>
                   EVResult.val[RankIn(IdEvents, k)].status = "Unknown"

\* C9 amended: the call returns Ok with one event per element whose id
\* segment is an integer, in document order, whatever its status text; the
\* event's id is that integer, which is 0 exactly when the segment is written
\* with zeros only; its status is of the enum, and is Unknown when the status
\* text is missing or is no capitalisation of the three names.
C9_IdsAsWritten ==
    EVDone =>
        /\ EVResult.ok
        /\ Len(EVResult.val) = Cardinality(IdEvents)
        /\ \A k \in IdEvents :
               LET e == EVResult.val[RankIn(IdEvents, k)]
                   digits == IF Head(EventIdText(k)) = "+" THEN Tail(EventIdText(k))
                             ELSE EventIdText(k)
               IN  /\ e.id = Unwrap(EventId(k))
                   /\ e.id = 0 <=> \A i \in 1..Len(digits) : digits[i] = "0"
                   /\ e.status \in EventStatuses
                   /\ CaseInsensitiveStatus(EventStatusText(k)) = "Unknown" => e.status = "Unknown"

\* an event with id 0, and an event without status element, both returned
C9_Witness ==
    /\ EVDone
    /\ \E j \in 1..Len(EVResult.val) : EVResult.val[j].id = 0
    /\ \E k \in IdEvents :
           ev_doc[k].status = None /\ EVResult.val[RankIn(IdEvents, k)].status = "Unknown"

\* C10: the status of every returned event is the case-insensitive lookup of
\* its status text: any capitalisation of "completed", "ongoing", "upcoming"
\* gives Completed, Ongoing, Upcoming, and any other text gives Unknown.
C10_StatusIgnoresCase ==
    EVDone =>
        /\ Len(EVResult.val) = Cardinality(IdEvents)
        /\ \A k \in IdEvents :
               EVResult.val[RankIn(IdEvents, k)].status =
                   CaseInsensitiveStatus(EventStatusText(k))

-----------------------------------------------------------------------------
(* Properties of the get_* calls (SpecClient) *)

ClDone == pc = "done"
ClResult == Unwrap(cl_ret)

\* the errors of get_document
TransportErrors == {"Http", "UnexpectedStatus", "ResponseBody"}

\* the page of the call was fetched, and the document it carried
MainOk == Completed("main") /\ ResultOf("main").ok
MainDocument == ResultOf("main").val

\* get_match fetched a page with a column that parse_match accepts, and the
\* Match parse_match gives for it
ParsedMain == parse_match(call.id, Unwrap(MainDocument.column))
MainParsed ==
    /\ call.name = "get_match"
    /\ MainOk
    /\ IsSome(MainDocument.column)
    /\ ParsedMain.ok

\* the position of a request in the order of issue
IssuedAt(r) == CHOOSE i \in 1..Len(req_log) : req_log[i] = r
Issued(r) == \E i \in 1..Len(req_log) : req_log[i] = r

\* C1: when the match page is fetched and parse_match succeeds, get_match
\* returns Ok with the Match of parse_match for every outcome of the two tab
\* requests; a tab whose request failed leaves its own field None, and the
\* other field is what the other tab's response gives.
C1_TabsAreBestEffort ==
    (ClDone /\ MainParsed) =>
        /\ ClResult.ok
        /\ [ClResult.val EXCEPT !.performance = None, !.economy = None] = ParsedMain.val
        /\ ~ResultOf("perf").ok =>
               /\ ClResult.val.performance = None
               /\ ClResult.val.economy = AbsorbEconomy(ResultOf("econ"))
        /\ ~ResultOf("econ").ok =>
               /\ ClResult.val.economy = None
               /\ ClResult.val.performance = AbsorbPerformance(ResultOf("perf"), ParsedMain.val)

\* the performance request failed, the economy request did not: Ok with no
\* performance and with an economy
C1_Witness ==
    /\ ClDone
    /\ MainParsed
    /\ ~ResultOf("perf").ok
    /\ ResultOf("econ").ok
    /\ ClResult.ok
    /\ ClResult.val.performance = None
    /\ IsSome(ClResult.val.economy)

\* C2: the two tab requests of get_match are issued together, before either
\* field is set; a field is set only when both requests have completed; in
\* every order of completion the performance field is what the performance
\* response and the parsed page give, the economy field what the economy
\* response gives; both requests complete whatever the outcome of the other.
C2_JoinThenAbsorbEachTab ==
    call.name = "get_match" =>
        /\ Issued("perf") <=> Issued("econ")
        /\ Issued("perf") => IssuedAt("econ") = IssuedAt("perf") + 1
        /\ (IsSome(result) /\ pc \in {"tabs", "join"}) =>
               Unwrap(result).performance = None /\ Unwrap(result).economy = None
        /\ (pc \in {"econ", "return"} \/ (ClDone /\ MainParsed)) =>
               Completed("perf") /\ Completed("econ")
        /\ pc \in {"econ", "return"} =>
               Unwrap(result).performance = AbsorbPerformance(ResultOf("perf"), ParsedMain.val)
        /\ pc = "econ" => Unwrap(result).economy = None
        /\ pc = "return" => Unwrap(result).economy = AbsorbEconomy(ResultOf("econ"))
        /\ (ClDone /\ MainParsed) =>
               /\ ClResult.ok
               /\ ClResult.val.performance = AbsorbPerformance(ResultOf("perf"), ParsedMain.val)
               /\ ClResult.val.economy = AbsorbEconomy(ResultOf("econ"))

\* the economy request completed first and failed, the performance request
\* completed after it: the Match has a performance and no economy
C2_Witness ==
    /\ call.name = "get_match"
    /\ ClDone
    /\ done_log = <<"main", "econ", "perf">>
    /\ ~ResultOf("econ").ok
    /\ ClResult.ok
    /\ IsSome(ClResult.val.performance)
    /\ ClResult.val.economy = None

\* C6 as claimed: when a call has returned, every request of the call that
\* ended with a transport error made the call return a transport error.
C6_EveryTransportErrorSurfaced ==
    ClDone =>
        \A r \in RequestNames :
            (Completed(r) /\ ~ResultOf(r).ok) =>
                ~ClResult.ok /\ ClResult.err \in TransportErrors

\* C6 amended: a transport error of the request of the page of a call is the
\* Err the call returns; a transport error of the performance or economy
\* request of get_match is not returned: the call returns Ok with that field
\* None.
C6_PageErrorSurfacedTabErrorAbsorbed ==
    ClDone =>
        /\ Completed("main")
        /\ \A r \in RequestNames :
               (Completed(r) /\ ~ResultOf(r).ok) => ResultOf(r).err \in TransportErrors
        /\ ~ResultOf("main").ok => ClResult = ResultOf("main")
        /\ (Completed("perf") /\ ~ResultOf("perf").ok) =>
               ClResult.ok /\ ClResult.val.performance = None
        /\ (Completed("econ") /\ ~ResultOf("econ").ok) =>
               ClResult.ok /\ ClResult.val.economy = None

\* get_team returned the error of the status of its page
C6_Witness ==
    /\ ClDone
    /\ call.name = "get_team"
    /\ ResultOf("main") = Err("UnexpectedStatus")
    /\ ClResult = Err("UnexpectedStatus")

\* an agent row of the page has fewer than 17 cells
ShortAgentRow == \E i \in 1..Len(MainDocument.rows) : Len(MainDocument.rows[i]) < 17

\* the page has no card below a label of the title
NoCard(title) == ~IsSome(FindCard(MainDocument.labels, title))

\* C7 as claimed: once the overview page is fetched, get_player returns an
\* error exactly when the player header is missing.
C7_FailsOnlyWithoutHeader ==
    (call.name = "get_player" /\ ClDone /\ MainOk) =>
        (~ClResult.ok <=> ~IsSome(MainDocument.header))

\* C7 amended: once the overview page is fetched, get_player returns an error
\* exactly when the player header is missing or an agent row has fewer than
\* 17 cells; a missing teams, news or placements card gives an empty list
\* (and no total winnings), and every row gives an entry otherwise.
C7_FailsWithoutHeaderOrOnShortRow ==
    (call.name = "get_player" /\ ClDone /\ MainOk) =>
        /\ ~ClResult.ok <=> (~IsSome(MainDocument.header) \/ ShortAgentRow)
        /\ ~IsSome(MainDocument.header) => ClResult = Err("ElementNotFound: player header")
        /\ (IsSome(MainDocument.header) /\ ShortAgentRow) =>
               ClResult = Err("ElementNotFound: agent stats row: expected 17 columns")
        /\ ClResult.ok =>
               /\ Len(ClResult.val.agent_stats) = Len(MainDocument.rows)
               /\ NoCard(<<"C", "u", "r", "r", "e", "n", "t", " ", "T", "e", "a", "m", "s">>) => ClResult.val.current_teams = <<>>
               /\ NoCard(<<"P", "a", "s", "t", " ", "T", "e", "a", "m", "s">>) => ClResult.val.past_teams = <<>>
               /\ NoCard(<<"L", "a", "t", "e", "s", "t", " ", "N", "e", "w", "s">>) => ClResult.val.news = <<>>
               /\ NoCard(<<"E", "v", "e", "n", "t", " ", "P", "l", "a", "c", "e", "m", "e", "n", "t", "s">>) =>
                      /\ ClResult.val.event_placements = <<>>
                      /\ ClResult.val.total_winnings = None

\* a page with a header and an agent row of 16 cells: the call returns the
\* error of the row
C7_Witness ==
    /\ call.name = "get_player"
    /\ ClDone
    /\ MainOk
    /\ IsSome(MainDocument.header)
    /\ \E i \in 1..Len(MainDocument.rows) : Len(MainDocument.rows[i]) = 16
    /\ ClResult = Err("ElementNotFound: agent stats row: expected 17 columns")

\* the id segment of the links of the documents: the text between the prefix
\* and the next '/', "" when the link has another shape
TwoParts(href, prefix) ==
    LET parts == Split(OrEmpty(StripPrefix(href, prefix)), "/")
    IN  IF Len(parts) = 2 THEN parts ELSE <<<<>>, <<>>>>
TeamIdText(href) == TwoParts(href, <<"/", "t", "e", "a", "m", "/">>)[1]
PlayerIdText(href) == TwoParts(href, <<"/", "p", "l", "a", "y", "e", "r", "/">>)[1]
MatchItemIdText(href) == TwoParts(href, <<"/">>)[1]

\* a written id that is no integer
BadId(text) == text # <<>> /\ ~IsSome(ParseU32(text))

\* the team links of the header and the player rows of the games of a match
\* page
HeaderTeamLinks == Present(Unwrap(Unwrap(MainDocument.column).header).team_links)
GameRows(g, t) ==
    IF t = 1 THEN Unwrap(MainDocument.column).games[g].players1
    ELSE Unwrap(MainDocument.column).games[g].players2

\* the page of the call holds an identity-critical id that is no integer
HasBadId ==
    CASE call.name = "get_events" -> \E k \in 1..Len(ev_doc) : BadId(EventIdText(k))
      [] call.name = "get_matchlist" ->
             \E k \in ItemPositions : BadId(MatchHrefIdSlug(ItemHref(k))[1])
      [] call.name = "get_player_matchlist" ->
             \E i \in 1..Len(MainDocument) :
                 BadId(MatchItemIdText(OrEmpty(MainDocument[i].href)))
      [] call.name = "get_match" ->
             /\ MainParsed
             /\ \/ \E i \in 1..Len(HeaderTeamLinks) : BadId(TeamIdText(HeaderTeamLinks[i]))
                \/ \E g \in 1..Len(Unwrap(MainDocument.column).games), t \in 1..2 :
                       \E p \in 1..Len(GameRows(g, t)) :
                           BadId(PlayerIdText(OrEmpty(GameRows(g, t)[p].href)))
      [] OTHER -> FALSE

\* C8: a call whose page holds an event, match, team or player id that is no
\* integer returns an error.
C8_BadIdIsAnError ==
    (ClDone /\ MainOk /\ HasBadId) => ~ClResult.ok

-----------------------------------------------------------------------------
(* Properties of the parsers of the match page (SpecParse) *)

PFDone(fn) == pf_call.fn = fn /\ IsSome(pf_ret)
PFResult == Unwrap(pf_ret)

\* the header element parse_header was applied to
HeaderArg == pf_call.args[1]

\* C11: the team list of a parsed header has exactly two entries whatever
\* the lengths of the link, name, score and icon sequences; an entry a
\* sequence is too short for holds the absent or default value
C11_HeaderHasTwoTeams ==
    PFDone("parse_header") /\ PFResult.ok =>
        LET teams == PFResult.val.teams
            links == Present(HeaderArg.team_links)
        IN  /\ Len(teams) = 2
            /\ \A i \in 1..2 :
                  /\ i > Len(links) => teams[i].id = 0 /\ teams[i].slug = <<>>
                  /\ i > Len(HeaderArg.team_names) => teams[i].name = <<>>
                  /\ i > Len(HeaderArg.team_scores) => teams[i].score = None
                  /\ i > Len(HeaderArg.team_icons) => teams[i].icon = <<>>

\* C12: when the link, name, score or icon sequence has a length other than
\* two, every team of the parsed header has no score; and a score is never
\* given to a team other than the one of the link at its position
C12_ScoresAbsentUnlessAllTwo ==
    PFDone("parse_header") /\ PFResult.ok =>
        LET teams == PFResult.val.teams
            h == HeaderArg
        IN  /\ (\/ Len(Present(h.team_links)) # 2
                \/ Len(h.team_names) # 2
                \/ Len(h.team_scores) # 2
                \/ Len(h.team_icons) # 2)
               => \A i \in 1..Len(teams) : teams[i].score = None
            /\ \A i \in 1..Len(teams) :
                  IsSome(teams[i].score) =>
                      /\ i <= Len(h.team_links)
                      /\ IsSome(h.team_links[i])
                      /\ teams[i].id = TeamIdSlug(Unwrap(h.team_links[i]))[1]
                      /\ teams[i].score = ParseU8(FirstText(h.team_scores[i]))

\* C13: the team list of a parsed game has no or two entries, whatever the
\* number of div.team elements of the game header
C13_GameTeamsNoneOrTwo ==
    PFDone("parse_game") => Len(PFResult.teams) \in {0, 2}

\* the header and the round columns parse_rounds was applied to
RoundsHeader == pf_call.args[1]
RoundsCols == pf_call.args[2]

\* C15: the rounds parse_rounds returns are in ascending order of their
\* round number, whatever the order of the round columns and their texts
C15_RoundsAscending ==
    PFDone("parse_rounds") =>
        \A i \in 1..(Len(PFResult) - 1) : PFResult[i].round <= PFResult[i + 1].round

\* the ids of the teams of a header
TeamIds(header) == { header.teams[t].id : t \in 1..Len(header.teams) }

\* C16: the winning team of every round parse_rounds returns, on its own or
\* within parse_game, is the id of a team of the header it was given,
\* whatever the number of outcome squares and of header teams
C16_WinnerIsHeaderTeam ==
    /\ PFDone("parse_rounds") =>
          \A i \in 1..Len(PFResult) : PFResult[i].winning_team \in TeamIds(RoundsHeader)
    /\ PFDone("parse_game") =>
          \A i \in 1..Len(PFResult.rounds) :
              PFResult.rounds[i].winning_team \in TeamIds(pf_call.args[1])

\* a header of one team, a column whose first square won and a column whose
\* second square won: only the round of the first is returned
C16_Witness ==
    /\ PFDone("parse_rounds")
    /\ Len(RoundsHeader.teams) = 1
    /\ Len(RoundsCols) = 2
    /\ WinningSquare(RoundsCols[1].squares) = 1
    /\ WinningSquare(RoundsCols[2].squares) = 2
    /\ Len(PFResult) = 1
    /\ PFResult[1].winning_team = RoundsHeader.teams[1].id

\* C14: every match-list entry that is returned, by parse_match_item of the
\* event match list and by parse_match_item of the player and team match
\* history, carries exactly two team summaries
C14_ItemHasTwoTeams ==
    /\ PFDone("parse_match_item") /\ PFResult.ok => Len(PFResult.val.teams) = 2
    /\ PFDone("match_item_parse_match_item") /\ PFResult.ok => Len(PFResult.val.teams) = 2

\* what an entry of the head-to-head section or of a history card has: an
\* href "/<id>/<slug>" with a numeric id, a score in the span, a mod-win class
EntryHasId(e) == IsSome(ParseU32(MatchIdSlugOnce(OrEmpty(e.href))[1]))
H2HScore(span) == IF IsSome(span) THEN ParseU8(FirstText(Unwrap(span).texts)) ELSE None
H2HHasFlag(e) ==
    \/ IsSome(e.rf) /\ HasClass(Unwrap(e.rf).classes, "mod-win")
    \/ IsSome(e.ra) /\ HasClass(Unwrap(e.ra).classes, "mod-win")
H2HHasScores(e) == IsSome(H2HScore(e.rf)) /\ IsSome(H2HScore(e.ra))
H2HComplete(e) == EntryHasId(e) /\ H2HHasScores(e)
H2HCompleteWithFlag(e) == H2HComplete(e) /\ H2HHasFlag(e)
PastScore(span) == IF IsSome(span) THEN ParseU8(FirstText(Unwrap(span))) ELSE None
PastHasScores(e) == IsSome(PastScore(e.rf)) /\ IsSome(PastScore(e.ra))
PastComplete(e) == EntryHasId(e) /\ PastHasScores(e)
PastCompleteWithFlag(e) == PastComplete(e) /\ HasClass(e.classes, "mod-win")

\* the ids of the entries, in their order
EntryIds(items) == [i \in 1..Len(items) |-> Unwrap(ParseU32(MatchIdSlugOnce(OrEmpty(items[i].href))[1]))]
ResultIds(entries) == [i \in 1..Len(entries) |-> entries[i].match_id]

\* C18 as stated: the entries returned are exactly those with a numeric id,
\* both scores and a winner flag; an entry lacking one of them is skipped
C18_FlaglessEntrySkipped ==
    /\ PFDone("parse_head_to_head") =>
          Len(PFResult) = Len(SelectSeq(pf_call.args[1], H2HCompleteWithFlag))
    /\ PFDone("parse_past_matches") =>
          \A c \in 1..Len(PFResult) :
              Len(PFResult[c].matches) = Len(SelectSeq(pf_call.args[2][c], PastCompleteWithFlag))

\* C18: the entries returned are exactly those with a numeric id and both
\* scores, in their order and with these values; the winner is read from the
\* mod-win class, whose absence gives winner_index 1 (head-to-head) or
\* is_win FALSE (history) and skips nothing; one list is returned per card
C18_EntryWithoutIdOrScoreSkipped ==
    /\ PFDone("parse_head_to_head") =>
          LET kept == SelectSeq(pf_call.args[1], H2HComplete)
          IN  /\ ResultIds(PFResult) = EntryIds(kept)
              /\ \A i \in 1..Len(kept) :
                    /\ PFResult[i].team1_score = Unwrap(H2HScore(kept[i].rf))
                    /\ PFResult[i].team2_score = Unwrap(H2HScore(kept[i].ra))
                    /\ PFResult[i].winner_index =
                          IF HasClass(Unwrap(kept[i].rf).classes, "mod-win") THEN 0 ELSE 1
    /\ PFDone("parse_past_matches") =>
          /\ Len(PFResult) = Len(pf_call.args[2])
          /\ \A c \in 1..Len(PFResult) :
                LET kept == SelectSeq(pf_call.args[2][c], PastComplete)
                    got == PFResult[c].matches
                IN  /\ ResultIds(got) = EntryIds(kept)
                    /\ \A i \in 1..Len(kept) :
                          /\ got[i].score_for = Unwrap(PastScore(kept[i].rf))
                          /\ got[i].score_against = Unwrap(PastScore(kept[i].ra))
                          /\ got[i].is_win = HasClass(kept[i].classes, "mod-win")

\* a head-to-head section of two entries: the first has an id and both
\* scores but no mod-win class and is returned, the second has no second
\* score and is skipped
C18_Witness ==
    /\ PFDone("parse_head_to_head")
    /\ Len(pf_call.args[1]) = 2
    /\ H2HComplete(pf_call.args[1][1]) /\ ~H2HHasFlag(pf_call.args[1][1])
    /\ EntryHasId(pf_call.args[1][2]) /\ ~IsSome(H2HScore(pf_call.args[1][2].ra))
    /\ Len(PFResult) = 1
    /\ PFResult[1].winner_index = 1

\* the text of an economy cell
CellArg == pf_call.args[1]

\* a text of digits that reads as a number of the range of u8
IsU8Text(s) ==
    /\ s # <<>>
    /\ \A i \in 1..Len(s) : IsDigit(s[i])
    /\ DigitsValue(s, 0) <= 255

\* C20: an economy cell text "<total> (<won>)", total and won being numbers
\* of the range of u8, gives the pair (total, won), "9 (3)" giving (9, 3);
\* a text without an opening parenthesis gives (0, 0), as "0" does
C20_RoundsWonOfCell ==
    PFDone("parse_rounds_won") =>
        /\ \A i \in 1..Len(CellArg), j \in 1..Len(CellArg) :
              (/\ i + 2 < j /\ j = Len(CellArg)
               /\ CellArg[i] = " " /\ CellArg[i + 1] = "(" /\ CellArg[j] = ")"
               /\ IsU8Text(SubSeq(CellArg, 1, i - 1))
               /\ IsU8Text(SubSeq(CellArg, i + 2, j - 1)))
              => PFResult = <<DigitsValue(SubSeq(CellArg, 1, i - 1), 0),
                              DigitsValue(SubSeq(CellArg, i + 2, j - 1), 0)>>
        /\ (\A i \in 1..Len(CellArg) : CellArg[i] # "(") => PFResult = <<0, 0>>
        /\ CellArg = <<"9", " ", "(", "3", ")">> => PFResult = <<9, 3>>
        /\ CellArg = <<"0">> => PFResult = <<0, 0>>

\* the cell "9 (3)" was parsed
C20_Witness ==
    /\ PFDone("parse_rounds_won")
    /\ CellArg = <<"9", " ", "(", "3", ")">>
    /\ PFResult = <<9, 3>>

-----------------------------------------------------------------------------
(* Properties of the match timestamp (SpecClient) *)

\* get_match fetched a page whose column has a header with an event icon
MainHeaderFound ==
    /\ call.name = "get_match"
    /\ MainOk
    /\ IsSome(MainDocument.column)
    /\ IsSome(Unwrap(MainDocument.column).header)
    /\ IsSome(Unwrap(Unwrap(MainDocument.column).header).event_icon)
MainHeader == Unwrap(Unwrap(MainDocument.column).header)

\* the timestamp element is missing, or its data-utc-ts attribute is
\* missing or is not a date and time in the format "%Y-%m-%d %H:%M:%S"
TimestampMissing(h) == ~IsSome(h.date)
TimestampUnreadable(h) ==
    /\ IsSome(h.date)
    /\ \/ ~IsSome(Unwrap(h.date))
       \/ ~IsSome(NaiveDateTimeParse(Unwrap(Unwrap(h.date)), DATE_TIME_FORMAT))

\* C17: the timestamp of the match header is required: when its element is
\* missing, or its data-utc-ts attribute is missing or does not parse with
\* "%Y-%m-%d %H:%M:%S", get_match issues no tab request, keeps no Match and
\* returns the error of parse_match
C17_TimestampRequired ==
    MainHeaderFound /\ (TimestampMissing(MainHeader) \/ TimestampUnreadable(MainHeader)) =>
        /\ ~Issued("perf") /\ ~Issued("econ")
        /\ result = None
        /\ pc \in {"fetch", "done"}
        /\ ClDone =>
              ClResult = IF TimestampMissing(MainHeader)
                         THEN Err("ElementNotFound: match date element (moment-tz-convert)")
                         ELSE Err("DateParse")

\* get_match returned the error for an attribute that is missing
C17_Witness ==
    /\ MainHeaderFound
    /\ IsSome(MainHeader.date)
    /\ ~IsSome(Unwrap(MainHeader.date))
    /\ ClDone
    /\ ClResult = Err("DateParse")
    /\ req_log = <<"main">>

-----------------------------------------------------------------------------
(* Properties of the text parsers (SpecParse) *)

\* the text parse_usage was applied to
UsageArg == pf_call.args[1]

\* C21: a usage text "(<count>) <pct>%" gives the count and the percentage
\* divided by 100, "(95) 20%" giving 95 and 0.20; the empty text gives 0
\* and 0.0; a count or a percentage that is no number gives 0 for itself and
\* leaves the other as it is
C21_UsageOfText ==
    PFDone("parse_usage") =>
        /\ \A count \in UsageCountTexts, pct \in UsagePctTexts :
              UsageArg = UsageText(<<"(">>, count, <<")">>, <<" ">>, pct, <<"%">>) =>
                  /\ PFResult[1] = UnwrapOr(ParseU32(Trim(count)), 0)
                  /\ PFResult[2] = IF IsSome(ParseF32(pct))
                                   THEN Div100(Unwrap(ParseF32(pct))) ELSE F32Zero
        /\ UsageArg = <<"(", "9", "5", ")", " ", "2", "0", "%">> => PFResult = <<95, F32(FALSE, 13421773, -26)>>
        /\ UsageArg = <<>> => PFResult = <<0, F32Zero>>

\* a usage text whose count is no number and whose percentage is one
C21_Witness ==
    /\ PFDone("parse_usage")
    /\ UsageArg = <<"(", "x", ")", " ", "2", "0", "%">>
    /\ PFResult = <<0, F32(FALSE, 13421773, -26)>>

\* the src normalize_img_url or parse_img_link was applied to
UrlArg == pf_call.args[1]

\* C22: normalize_img_url and parse_img_link give a URL for every text:
\* "https:" before a text that starts with two slashes, the origin
\* "https://www.vlr.gg" before another text that starts with a slash, and
\* the text itself otherwise
C22_NormalizedUrl ==
    PFDone("normalize_img_url") \/ PFDone("parse_img_link") =>
        /\ PFResult =
              IF Len(UrlArg) >= 2 /\ UrlArg[1] = "/" /\ UrlArg[2] = "/"
              THEN <<"h", "t", "t", "p", "s", ":">> \o UrlArg
              ELSE IF Len(UrlArg) >= 1 /\ UrlArg[1] = "/"
              THEN <<"h", "t", "t", "p", "s", ":", "/", "/", "w", "w", "w", ".", "v", "l", "r", ".", "g", "g">> \o UrlArg
              ELSE UrlArg
        /\ UrlArg = <<"/", "/", "c", "d", "n", "/", "x", ".", "p", "n", "g">> => PFResult = <<"h", "t", "t", "p", "s", ":", "/", "/", "c", "d", "n", "/", "x", ".", "p", "n", "g">>
        /\ UrlArg = <<"/", "i", "m", "g", "/", "x", ".", "p", "n", "g">> => PFResult = <<"h", "t", "t", "p", "s", ":", "/", "/", "w", "w", "w", ".", "v", "l", "r", ".", "g", "g", "/", "i", "m", "g", "/", "x", ".", "p", "n", "g">>
        /\ UrlArg = <<"h", "t", "t", "p", "s", ":", "/", "/", "x", "/", "y">> => PFResult = <<"h", "t", "t", "p", "s", ":", "/", "/", "x", "/", "y">>

\* a src that starts with two slashes was normalized
C22_Witness ==
    /\ PFDone("normalize_img_url")
    /\ UrlArg = <<"/", "/", "c", "d", "n", "/", "x", ".", "p", "n", "g">>
    /\ PFResult = <<"h", "t", "t", "p", "s", ":", "/", "/", "c", "d", "n", "/", "x", ".", "p", "n", "g">>

-----------------------------------------------------------------------------
(* Properties of the requests of a call (SpecClient) *)

\* the number of requests issued for r
TimesIssued(r) == Cardinality({ i \in 1..Len(req_log) : req_log[i] = r })

\* C23: no call requests a URL twice, whether the request succeeded or
\* failed: get_match issues at most the requests of the main page, the
\* performance tab and the economy tab, and every other call issues the
\* request of its page and no other
C23_NoRetry ==
    /\ \A r \in RequestNames : TimesIssued(r) <= 1
    /\ Len(req_log) <= 3
    /\ call.name # "get_match" => \A i \in 1..Len(req_log) : req_log[i] = "main"
    /\ call.name # "get_match" /\ pc # "start" => req_log = <<"main">>
    /\ \A r \in RequestNames : Completed(r) => TimesIssued(r) = 1

\* get_match has returned after three requests, two of which failed, and
\* each was issued once
C23_Witness ==
    /\ ClDone
    /\ call.name = "get_match"
    /\ req_log = <<"main", "perf", "econ">>
    /\ ~ResultOf("perf").ok
    /\ ~ResultOf("econ").ok

-----------------------------------------------------------------------------
(* Properties of the performance tables (SpecParse) *)

PerfArg == pf_call.args[1]
PerfTablesFound ==
    /\ IsSome(PerfArg.all_game)
    /\ IsSome(Unwrap(PerfArg.all_game).matrix)
    /\ IsSome(Unwrap(PerfArg.all_game).adv)

\* the rows of the kill-matrix table
KillTable == Unwrap(Unwrap(PerfArg.all_game).matrix)

\* the name -> id lookup of the match, 0 for a name it does not hold
Lookup(name) == IdOf(build_player_name_map(pf_call.args[2]), name)

\* v_1..v_k: the names of the first row after the corner cell
VictimNames ==
    IF KillTable = <<>> THEN <<>>
    ELSE [j \in 1..(Len(Head(KillTable)) - 1) |-> select_text(Head(KillTable)[j + 1].name)]

NonEmptyRow(row) == row # <<>>

\* the later rows that have cells
KillerRows == IF KillTable = <<>> THEN <<>> ELSE SelectSeq(Tail(KillTable), NonEmptyRow)

\* the number of cells c_j of the killer rows before row r
RECURSIVE CellsBefore(_, _)
CellsBefore(rows, r) ==
    IF r <= 1 THEN 0 ELSE CellsBefore(rows, r - 1) + (Len(rows[r - 1]) - 1)

\* the i-th number of a cell: its i-th div.stats-sq as a u16, 0 without one
SquareNumber(cell, i) ==
    IF i <= Len(cell.squares) THEN UnwrapOr(ParseU16(FirstText(cell.squares[i])), 0) ELSE 0

\* C24: the kill matrix holds, row by row, one entry for each cell after the
\* killer name of each non-empty later row: the killer is looked up by the
\* name of the row, the victim by the name of the column, kills and deaths
\* are the first and second number of the cell; a name that is not in the
\* lookup and a column beyond the victim names give id 0, never an error
C24_KillMatrixRowMajor ==
    PFDone("parse_performance") /\ PerfTablesFound =>
        /\ PFResult.ok
        /\ LET kill_matrix == PFResult.val.kill_matrix
           IN  /\ Len(kill_matrix) = CellsBefore(KillerRows, Len(KillerRows) + 1)
               /\ \A r \in 1..Len(KillerRows) : \A j \in 1..(Len(KillerRows[r]) - 1) :
                     kill_matrix[CellsBefore(KillerRows, r) + j] =
                         [killer_id |-> Lookup(select_text(KillerRows[r][1].name)),
                          victim_id |-> IF j <= Len(VictimNames) THEN Lookup(VictimNames[j]) ELSE 0,
                          kills |-> SquareNumber(KillerRows[r][j + 1], 1),
                          deaths |-> SquareNumber(KillerRows[r][j + 1], 2)]

\* a table of one victim column and two killer rows of two cells, the
\* second killer unknown: four entries, the ones beyond the column with
\* victim 0 and the ones of the unknown killer with killer 0
C24_Witness ==
    /\ PFDone("parse_performance")
    /\ PerfTablesFound
    /\ VictimNames = <<<<"B", "o", "a", "s", "t", "e", "r">>>>
    /\ Len(KillerRows) = 2
    /\ PFResult.ok
    /\ Len(PFResult.val.kill_matrix) = 4
    /\ PFResult.val.kill_matrix[1] = [killer_id |-> 9, victim_id |-> 21, kills |-> 4, deaths |-> 3]
    /\ PFResult.val.kill_matrix[2] = [killer_id |-> 9, victim_id |-> 0, kills |-> 0, deaths |-> 2]
    /\ PFResult.val.kill_matrix[3].killer_id = 0

-----------------------------------------------------------------------------
(* Properties of the round outcomes (SpecParse) *)

\* the class tokens of an element
Tokens(classes) == { classes[i] : i \in 1..Len(classes) }

\* the outcome squares of a column that carry mod-win
WinSquares(col) == { i \in 1..Len(col.squares) : "mod-win" \in Tokens(col.squares[i]) }

\* the position of the first of them
FirstWin(col) == CHOOSE i \in WinSquares(col) : \A j \in WinSquares(col) : i <= j

\* the column has a square that won and the header a team at its position
GivesRound(col) == WinSquares(col) # {} /\ FirstWin(col) <= Len(RoundsHeader.teams)

\* C25: parse_rounds returns a round for a column only if a square of the
\* column carries mod-win; the winner is the header team at the position of
\* the first such square, and the site is "t" exactly when that square
\* carries mod-t and "ct" otherwise; a column without a mod-win square gives
\* no round
C25_RoundOfFirstWinSquare ==
    PFDone("parse_rounds") =>
        LET kept == SelectSeq(RoundsCols, GivesRound)
        IN  /\ Len(PFResult) = Len(kept)
            /\ \A n \in 1..Len(kept) :
                  /\ WinSquares(kept[n]) # {}
                  /\ PFResult[n].winning_team = RoundsHeader.teams[FirstWin(kept[n])].id
                  /\ PFResult[n].winning_site = "t"
                       <=> "mod-t" \in Tokens(kept[n].squares[FirstWin(kept[n])])
                  /\ PFResult[n].winning_site \in {"t", "ct"}
            /\ (\A i \in 1..Len(RoundsCols) : WinSquares(RoundsCols[i]) = {}) => PFResult = <<>>

\* a header of two teams; a column whose two squares carry mod-win, the
\* second with mod-t, a column whose second square won and one without a
\* winning square: the first team as defender, then the second team
C25_Witness ==
    /\ PFDone("parse_rounds")
    /\ Len(RoundsHeader.teams) = 2
    /\ RoundsHeader.teams[1].id # RoundsHeader.teams[2].id
    /\ Len(RoundsCols) = 2
    /\ WinSquares(RoundsCols[1]) = {1, 2}
    /\ "mod-t" \in Tokens(RoundsCols[1].squares[2])
    /\ WinSquares(RoundsCols[2]) = {2}
    /\ Len(PFResult) = 2
    /\ PFResult[1].winning_team = RoundsHeader.teams[1].id
    /\ PFResult[1].winning_site = "ct"
    /\ PFResult[2].winning_team = RoundsHeader.teams[2].id

-----------------------------------------------------------------------------
(* Properties of the order of the requests of get_match (SpecClient) *)

\* a tab request is issued in this step
TabIssued == \E r \in {"perf", "econ"} : req[r].st = "idle" /\ req'[r].st # "idle"

\* the error get_match has when the page is not fetched or not parsed
MainError ==
    IF ~ResultOf("main").ok THEN ResultOf("main")
    ELSE IF ~IsSome(MainDocument.column)
    THEN Err("ElementNotFound: match page column (div.col.mod-3)")
    ELSE IF ~IsSome(Unwrap(MainDocument.column).header)
    THEN Err("ElementNotFound: match header (div.match-header)")
    ELSE ParsedMain

\* C26: get_match issues the requests of the performance and economy tabs
\* only after the match page is fetched and parse_match has succeeded on it;
\* when the request of the page fails, the column or the header is missing
\* or parse_match returns an error, get_match returns that error and issues
\* neither tab request
C26_TabsAfterParsedMain ==
    /\ [][call.name = "get_match" /\ TabIssued =>
             /\ MainParsed
             /\ result = Some(ParsedMain.val)
             /\ req_log = <<"main">>]_vars
    /\ [](call.name = "get_match" /\ Completed("main") /\ ~MainParsed =>
             /\ ~Issued("perf") /\ ~Issued("econ")
             /\ req["perf"].st = "idle" /\ req["econ"].st = "idle"
             /\ ClDone => ~ClResult.ok /\ ClResult = MainError)

\* get_match returned the error of a page without a match header, having
\* issued the request of the page only
C26_Witness ==
    /\ call.name = "get_match"
    /\ MainOk
    /\ IsSome(MainDocument.column)
    /\ ~IsSome(Unwrap(MainDocument.column).header)
    /\ ClDone
    /\ ClResult = Err("ElementNotFound: match header (div.match-header)")
    /\ req_log = <<"main">>
    /\ req["perf"].st = "idle"

-----------------------------------------------------------------------------
(* Properties of the tab sections of the Match (SpecClient) *)

\* the request of a tab succeeded and its document has the page column
\* with the section of game "all"
TabSectionFound(r) ==
    /\ ResultOf(r).ok
    /\ IsSome(ResultOf(r).val.column)
    /\ IsSome(Unwrap(ResultOf(r).val.column).all_game)
TabSection(r) == Unwrap(Unwrap(ResultOf(r).val.column).all_game)

\* C27: the performance of the Match get_match returns is present exactly
\* when the performance request succeeded and its document has the column,
\* the section of game "all", the kill-matrix table and the advanced-stats
\* table, so that a document with a kill matrix and no advanced-stats table
\* gives no performance at all; the economy is present exactly when the
\* economy request succeeded and its document has the column, the section
\* and the economy table
C27_SectionsAllOrNothing ==
    (ClDone /\ MainParsed) =>
        /\ ClResult.ok
        /\ IsSome(ClResult.val.performance) <=>
              /\ TabSectionFound("perf")
              /\ IsSome(TabSection("perf").matrix)
              /\ IsSome(TabSection("perf").adv)
        /\ IsSome(ClResult.val.performance) =>
              DOMAIN Unwrap(ClResult.val.performance) = {"kill_matrix", "player_performances"}
        /\ IsSome(ClResult.val.economy) <=>
              /\ TabSectionFound("econ")
              /\ IsSome(TabSection("econ").econ)

\* the performance document has a kill matrix with rows and no
\* advanced-stats table, the economy document has its table: no performance,
\* an economy
C27_Witness ==
    /\ ClDone
    /\ MainParsed
    /\ TabSectionFound("perf")
    /\ IsSome(TabSection("perf").matrix)
    /\ Unwrap(TabSection("perf").matrix) # <<>>
    /\ ~IsSome(TabSection("perf").adv)
    /\ ClResult.ok
    /\ ClResult.val.performance = None
    /\ IsSome(ClResult.val.economy)

-----------------------------------------------------------------------------
(* Properties of the fields of the Match (SpecClient) *)

\* the fields of a Match that parse_match fills from the match page
PageFields == {"id", "header", "streams", "vods", "games", "head_to_head", "past_matches"}

\* two Matches with the same values of the fields of the match page
SamePageFields(a, b) == \A f \in PageFields : a[f] = b[f]

\* C28: the steps of get_match that absorb the results of the tab requests
\* change the performance and the economy of the Match only: at every step
\* the id, header, streams, vods, games, head-to-head and past matches of
\* the Match are the ones parse_match gave for the match page, and so are
\* those of the Match that is returned, for every outcome of the two tab
\* requests
C28_TabsLeavePageFields ==
    /\ [][call.name = "get_match" /\ IsSome(result) =>
             /\ IsSome(result')
             /\ DOMAIN Unwrap(result') = PageFields \cup {"performance", "economy"}
             /\ SamePageFields(Unwrap(result'), Unwrap(result))]_vars
    /\ [](call.name = "get_match" /\ IsSome(result) =>
             SamePageFields(Unwrap(result), ParsedMain.val))
    /\ [](ClDone /\ MainParsed =>
             /\ ClResult.ok
             /\ SamePageFields(ClResult.val, ParsedMain.val)
             /\ ClResult.val = Unwrap(result))

\* a Match with a game, a head-to-head entry and past matches is returned
\* with them after the economy request failed and the performance was set
C28_Witness ==
    /\ ClDone
    /\ MainParsed
    /\ ~ResultOf("econ").ok
    /\ ClResult.ok
    /\ IsSome(ClResult.val.performance)
    /\ ClResult.val.games # <<>>
    /\ ClResult.val.games = ParsedMain.val.games
    /\ ClResult.val.head_to_head # <<>>
    /\ ClResult.val.past_matches # <<>>

-----------------------------------------------------------------------------
(* Properties of the current date of parse_matches (SpecMatchList) *)

\* the match items that precede every date label
ItemsBeforeLabels == {k \in ItemPositions : \A j \in LabelPositions : k < j}

\* C29: the current date of the scan is absent until a date label is
\* parsed, and is then the date of the last label parsed; a match item that
\* precedes every date label is not dropped for the lack of a date (it is
\* returned like any item, that is when its id is an integer) and has no
\* date-time even when its time parses; a returned item has a date-time
\* exactly when a date label was parsed before it and its time parses.
C29_UndatedBeforeFirstLabel ==
    /\ ml_i >= 1 =>
          LET l == LastLabelBefore(ml_i, TextLabels)
          IN  /\ last_date = IF l = 0 THEN None ELSE LabelDate(l)
              /\ (\A j \in LabelPositions : ml_i <= j) => last_date = None
    /\ (MLDone /\ MLResult.ok) =>
          /\ Len(MLResult.val) = Cardinality(IdItems)
          /\ \A k \in IdItems :
                LET e == MLResult.val[RankIn(IdItems, k)]
                    l == LastLabelBefore(k, TextLabels)
                IN  /\ k \in ItemsBeforeLabels => e.date_time = None /\ e.id = Unwrap(ItemId(k))
                    /\ l = 0 => e.date_time = None
                    /\ IsSome(e.date_time) <=> (l # 0 /\ IsSome(ItemTime(k)))

\* an item with the time "3:00 PM" before the only label and one after it:
\* both are returned, the first without a date-time, the second with one
C29_Witness ==
    /\ MLDone /\ MLResult.ok
    /\ Len(ml_doc) = 3
    /\ ItemPositions = {1, 3}
    /\ TextLabels = {2}
    /\ IsSome(ItemTime(1))
    /\ Len(MLResult.val) = 2
    /\ MLResult.val[1].date_time = None
    /\ IsSome(MLResult.val[2].date_time)

-----------------------------------------------------------------------------
(* Properties of the name -> id lookup (SpecParse) *)

\* the places, in a list of players, of the players of a name that have an id
Carriers(players, name) ==
    { i \in 1..Len(players) :
        players[i].name = name /\ players[i].id # 0 /\ name # <<>> }

\* the id of the last of them, 0 without one
LastCarrierId(players, name) ==
    LET carriers == Carriers(players, name)
    IN  IF carriers = {} THEN 0
        ELSE players[CHOOSE i \in carriers : \A j \in carriers : j <= i].id

\* the players of the match of the call, game by game, team by team
NamePlayers == GamePlayers(pf_call.args[Len(pf_call.args)])

\* C30: every value of the name -> id lookup is a non-zero id of a player
\* of the match with exactly that name; a player with id 0 or with an empty
\* name does not enter it; for a name of players with different ids it holds
\* the id of the last of them in the order of the games, their teams and
\* their players, and the rows of that name in the tables of the
\* performance tab have that id, not 0
C30_NameMapLastWins ==
    /\ PFDone("build_player_name_map") =>
          LET players == NamePlayers
          IN  /\ \A name \in DOMAIN PFResult :
                    /\ PFResult[name] # 0
                    /\ name # <<>>
                    /\ \E i \in 1..Len(players) :
                          players[i].name = name /\ players[i].id = PFResult[name]
              /\ \A i \in 1..Len(players) :
                    IF Carriers(players, players[i].name) = {}
                    THEN players[i].name \notin DOMAIN PFResult
                    ELSE /\ players[i].name \in DOMAIN PFResult
                         /\ PFResult[players[i].name] = LastCarrierId(players, players[i].name)
    /\ (PFDone("parse_performance") /\ PerfTablesFound) =>
          LET players == NamePlayers
              killers == KillerRows
              kill_matrix == PFResult.val.kill_matrix
              performances == PFResult.val.player_performances
          IN  /\ \A r \in 1..Len(killers) : \A j \in 1..(Len(killers[r]) - 1) :
                    kill_matrix[CellsBefore(killers, r) + j].killer_id =
                        LastCarrierId(players, select_text(killers[r][1].name))
              /\ \A i \in 1..Len(performances) :
                    performances[i].player_id =
                        LastCarrierId(players, performances[i].player_name)

\* players named Ethan with the ids 9 and 10 and, last, with the id 0: the
\* lookup has 10 for Ethan
C30_Witness ==
    /\ PFDone("build_player_name_map")
    /\ \E i, j, k \in 1..Len(NamePlayers) :
          /\ i < j /\ j < k
          /\ NamePlayers[i] = NamedPlayer(9, <<"E", "t", "h", "a", "n">>)
          /\ NamePlayers[j] = NamedPlayer(10, <<"E", "t", "h", "a", "n">>)
          /\ NamePlayers[k] = NamedPlayer(0, <<"E", "t", "h", "a", "n">>)
          /\ \A l \in (j + 1)..Len(NamePlayers) :
                NamePlayers[l].id \in {0, 21}
    /\ <<"E", "t", "h", "a", "n">> \in DOMAIN PFResult
    /\ PFResult[<<"E", "t", "h", "a", "n">>] = 10

====
